---- MODULE Spec2Model ----
(***************************************************************************)
(* Intent-to-trade pipeline of intent-options-trader.                      *)
(*                                                                         *)
(*   SpecParse : AgentParser.parseIntent, the tool-calling loop            *)
(*               (src/lib/agent-parser.ts)                                 *)
(*   SpecExec  : the POST handler of the execute route                     *)
(*               (src/app/api/parse-intent/route.ts, second file)          *)
(*   SpecLib   : the safety and payoff functions, one call at a time       *)
(*   SpecTools : the market-data tools executeGetMultipleTickers and       *)
(*               executeFindLiquidOptions (src/unnamed/part_000)           *)
(*                                                                         *)
(* Money is counted in whole dollars in the execute route, in cents in    *)
(* runSafetyChecks and in 1/25600 of a dollar in the payoff functions;     *)
(* contracts are whole contracts and the arithmetic is exact (no           *)
(* floating-point rounding).                                               *)
(***************************************************************************)
EXTENDS Integers, Sequences, FiniteSets, TLC

VARIABLES
    \* ---- AgentParser.parseIntent ----
    pc,               \* position of the loop: REQUEST_MODEL, EXECUTE_TOOLS, DONE, FAILED
    iterations,       \* let iterations
    toolCallCount,    \* let toolCallCount
    toolIdsProcessed, \* const toolIdsProcessed = new Set<string>()
    messages,         \* const messages: Anthropic.MessageParam[]
    toolUseBlocks,    \* const toolUseBlocks of the turn being executed
    toolResults,      \* const toolResults of the turn being executed
    lastResponse,     \* the response of the latest client.messages.create call
    result,           \* the value parseIntent returned (NoValue until then)
    error,            \* the error parseIntent threw ("" until then)
    modelRequests,    \* number of client.messages.create calls made
    executed,         \* the calls of executeLyraTool made, in call order
    \* ---- AgentParser.extractTradeSpec ----
    xtText,           \* the text extractTradeSpec is called with
    xtOut,            \* what it returned or threw
    \* ---- execute route, POST ----
    xpc,              \* position of the handler
    request,          \* the request body
    env,              \* process.env as getSafetyConfig reads it
    config,           \* const config = getSafetyConfig() of the handler
    legIdx,           \* index of the leg the current for-loop is at
    totalEstimatedCost,
    maxSpread,        \* null (NoSpread) or a fraction [num, den]
    pricesMap,
    safetyResult,
    orders,
    submitted,        \* the submitOrder calls made, in call order, and how each ended
    tickerCalls,      \* number of getTicker calls made
    response,         \* the HTTP response (status 0 until sent)
    \* ---- library functions called on their own ----
    fnCall,           \* the call under examination: the function and its arguments
    fnReturn,         \* what it returned (NotReturned until then)
    \* ---- executeGetMultipleTickers ----
    tpc,              \* position of the call: START, AWAIT, DONE
    promises,         \* const promises: one entry per requested name
    completed         \* the lookups in the order they completed

parseVars == <<pc, iterations, toolCallCount, toolIdsProcessed, messages,
               toolUseBlocks, toolResults, lastResponse, result, error,
               modelRequests, executed>>

execVars == <<xpc, request, env, config, legIdx, totalEstimatedCost, maxSpread,
              pricesMap, safetyResult, orders, submitted, tickerCalls, response>>

extractVars == <<xtText, xtOut>>

libVars == <<fnCall, fnReturn, tpc, promises, completed>>

vars == <<parseVars, extractVars, execVars, libVars>>

NoCall == [fn |-> "none"]

NotReturned == [returned |-> FALSE]

(***************************************************************************)
(* Bounds of the model and constants of the program.                       *)
(***************************************************************************)
MaxBlocks == 2          \* tool_use blocks in one model response

MaxFragments == 2       \* fragments of a final text

MAX_ITERATIONS == 10

MIN_TOOL_CALLS == 2

\* The tool-use ids the model may put in its responses.
ToolIds == {"toolu_a", "toolu_b"}

StopReasons == {"end_turn", "tool_use", "max_tokens"}

(***************************************************************************)
(* JSON values the model's final text may carry.  A text is a sequence of  *)
(* tokens: "F" a ``` fence (with or without the json tag), "{" and "}",     *)
(* "s" whitespace, "p" prose, "n" a JSON scalar, and one token per member   *)
(* list of an object (the field names of JsonMembers).                     *)
(***************************************************************************)
Leg(name, side, amount) == [instrument_name |-> name, side |-> side, amount |-> amount]

ValidSpec ==
    [kind |-> "object", underlying |-> "ETH", strategy |-> "Long Call",
     expiry |-> "20250124",
     legs |-> <<Leg("ETH-20250124-3500-C", "buy", 1)>>,
     max_cost_usd |-> 100, max_loss_usd |-> 100, explanation |-> "Test trade"]

Scalar == [ValidSpec EXCEPT !.kind = "scalar"]

EmptyObject ==
    [kind |-> "object", underlying |-> "", strategy |-> "", expiry |-> "",
     legs |-> <<>>, max_cost_usd |-> -1, max_loss_usd |-> -1, explanation |-> ""]

JsonMembers ==
    [m_valid    |-> ValidSpec,
     m_free     |-> [ValidSpec EXCEPT !.max_cost_usd = 0, !.max_loss_usd = 0],
     m_spread   |-> [ValidSpec EXCEPT !.strategy = "Bull Call Spread",
                       !.legs = <<Leg("ETH-20250124-3500-C", "buy", 1),
                                  Leg("ETH-20250124-4000-C", "sell", 1)>>],
     m_nolegs   |-> [ValidSpec EXCEPT !.legs = <<>>],
     m_amount0  |-> [ValidSpec EXCEPT !.legs = <<Leg("ETH-20250124-3500-C", "buy", 0)>>],
     m_amountN  |-> [ValidSpec EXCEPT !.legs = <<Leg("ETH-20250124-3500-C", "buy", 1),
                                                  Leg("ETH-20250124-4000-C", "sell", -1)>>],
     m_side     |-> [ValidSpec EXCEPT !.legs = <<Leg("ETH-20250124-3500-C", "hold", 1)>>],
     m_noname   |-> [ValidSpec EXCEPT !.legs = <<Leg("", "buy", 1)>>],
     m_cost     |-> [ValidSpec EXCEPT !.max_cost_usd = -1],
     m_loss     |-> [ValidSpec EXCEPT !.max_loss_usd = -1],
     m_nounder  |-> [ValidSpec EXCEPT !.underlying = ""],
     m_nostrat  |-> [ValidSpec EXCEPT !.strategy = ""],
     m_noexpiry |-> [ValidSpec EXCEPT !.expiry = ""],
     m_noexpl   |-> [ValidSpec EXCEPT !.explanation = ""]]

MemberTokens == DOMAIN JsonMembers

NoValue == [ValidSpec EXCEPT !.kind = "none"]

(***************************************************************************)
(* src/lib/schemas.ts                                                      *)
(***************************************************************************)
\* LegSchema with amount only required to be nonnegative.
LegSchemaLoose(leg) ==
    /\ leg.instrument_name # ""
    /\ leg.side \in {"buy", "sell"}
    /\ leg.amount >= 0

\* Lines 4-8
LegSchema(leg) ==
    /\ leg.instrument_name # ""
    /\ leg.side \in {"buy", "sell"}
    /\ leg.amount > 0

TradeSpecSchema(v) ==
    /\ v.kind = "object"
    /\ v.underlying # ""
    /\ v.strategy # ""
    /\ v.expiry # ""
    /\ Len(v.legs) >= 1
    /\ \A i \in 1..Len(v.legs) : LegSchema(v.legs[i])
    /\ v.max_cost_usd >= 0
    /\ v.max_loss_usd >= 0
    /\ v.explanation # ""

(***************************************************************************)
(* AgentParser.extractTradeSpec                                            *)
(***************************************************************************)
RECURSIVE TrimLeft(_)
TrimLeft(s) == IF s # <<>> /\ Head(s) = "s" THEN TrimLeft(Tail(s)) ELSE s

RECURSIVE TrimRight(_)
TrimRight(s) ==
    IF s # <<>> /\ s[Len(s)] = "s" THEN TrimRight(SubSeq(s, 1, Len(s) - 1)) ELSE s

\* String.prototype.trim
Trim(s) == TrimRight(TrimLeft(s))

Positions(s, tok) == {i \in 1..Len(s) : s[i] = tok}

Min(S) == CHOOSE x \in S : \A y \in S : x <= y

Max(S) == CHOOSE x \in S : \A y \in S : x >= y

\* text.match(/```(?:json)?\s*([\s\S]*?)\s*```/): the lazy group ends at the
\* first fence after the opening one; the \s* around it strip whitespace.
HasFence(text) == Cardinality(Positions(text, "F")) >= 2

FenceContent(text) ==
    LET open  == Min(Positions(text, "F"))
        close == Min(Positions(text, "F") \ {open})
    IN  Trim(SubSeq(text, open + 1, close - 1))

\* text.match(/\{[\s\S]*\}/): greedy, from the first "{" to the last "}".
HasObject(text) ==
    /\ Positions(text, "{") # {}
    /\ \E j \in Positions(text, "}") : j > Min(Positions(text, "{"))

ObjectSpan(text) ==
    SubSeq(text, Min(Positions(text, "{")), Max(Positions(text, "}")))

\* The jsonString handed to JSON.parse: the trimmed text, overwritten by the
\* fenced content if the text has a fenced block, overwritten again by the
\* brace span if the text has one.
JsonCandidate(text) ==
    LET s0 == Trim(text)
        s1 == IF HasFence(text) THEN FenceContent(text) ELSE s0
    IN  IF HasObject(text) THEN ObjectSpan(text) ELSE s1

\* JSON.parse: whitespace around tokens is insignificant.
NoSpace(s) == SelectSeq(s, LAMBDA t : t # "s")

JsonParses(s) ==
    LET t == NoSpace(s)
    IN  \/ t = <<"n">>
        \/ t = <<"{", "}">>
        \/ Len(t) = 3 /\ t[1] = "{" /\ t[2] \in MemberTokens /\ t[3] = "}"

JsonParse(s) ==
    LET t == NoSpace(s)
    IN  IF t = <<"n">> THEN Scalar
        ELSE IF t = <<"{", "}">> THEN EmptyObject
        ELSE JsonMembers[t[2]]

ERR_PARSE == "Failed to parse agent response as JSON"

ERR_SCHEMA == "TradeSpec schema validation failed"

ERR_UNEXPECTED == "Unexpected agent state"

ERR_ITERATIONS == "Agent exceeded maximum iterations"

\* [value, error]: what extractTradeSpec returns or throws.
extractTradeSpec(text) ==
    LET jsonString == JsonCandidate(text)
    IN  IF ~JsonParses(jsonString) THEN [value |-> NoValue, error |-> ERR_PARSE]
        ELSE IF ~TradeSpecSchema(JsonParse(jsonString))
             THEN [value |-> NoValue, error |-> ERR_SCHEMA]
        ELSE [value |-> JsonParse(jsonString), error |-> ""]

\* The texts handed to extractTradeSpec: one to MaxFragments fragments, each a
\* piece of prose, whitespace, a scalar, a lone brace or fence, an object, a
\* fenced object, a fenced scalar or prose in braces.  textContent is never
\* empty when extractTradeSpec is called (line 245).
Fragments ==
    {<<"p">>, <<"s">>, <<"n">>, <<"{">>, <<"}">>, <<"F">>}
    \cup {<<"{", m, "}">> : m \in MemberTokens}
    \cup {<<"F", "s", "{", m, "}", "s", "F">> : m \in {"m_valid", "m_amount0"}}
    \cup {<<"F", "n", "F">>, <<"{", "p", "}">>}

RECURSIVE TextsOf(_)
TextsOf(n) ==
    IF n = 1 THEN Fragments
    ELSE TextsOf(n - 1) \cup {t \o f : t \in TextsOf(n - 1), f \in Fragments}

Texts == TextsOf(MaxFragments)

NotExtracted == [value |-> NoValue, error |-> "not extracted"]

InitExtract ==
    /\ xtText \in Texts
    /\ xtOut = NotExtracted

\* Line 272: return this.extractTradeSpec(textContent)
ExtractFinalText ==
    /\ xtOut = NotExtracted
    /\ xtOut' = extractTradeSpec(xtText)
    /\ UNCHANGED <<xtText, parseVars, execVars, libVars>>

NextExtract == ExtractFinalText

(***************************************************************************)
(* AgentParser.parseIntent                                                 *)
(***************************************************************************)
ToolUseSeqs == UNION {[1..n -> ToolIds] : n \in 0..MaxBlocks}

\* A response of the model: its tool_use blocks (ids, in order), the
\* concatenation of its text blocks (<<>>: none) and its stop_reason.  Only
\* extractTradeSpec reads more of the text than whether it is empty, so
\* SomeText stands for any non-empty text everywhere else.
SomeText == <<"p">>

Responses == [tool_use : ToolUseSeqs, text : {<<>>, SomeText}, stop_reason : StopReasons]

\* A response none of whose tool_use blocks is new is read by the loop for its
\* text and stop_reason only: the step it causes is the same for every such
\* sequence of blocks, and the one without blocks stands for them all.
ResponsesWithoutNewToolUse(processed) ==
    {r \in [tool_use : {<<>>}, text : {<<>>, SomeText}, stop_reason : StopReasons] :
        \E tool_use \in ToolUseSeqs : \A i \in 1..Len(tool_use) : tool_use[i] \in processed}

\* What extractTradeSpec makes of the final texts.
ExtractionResults == {extractTradeSpec(t) : t \in Texts}

NoResponse == [newToolUse |-> 0, hasText |-> FALSE, stop_reason |-> "none"]

\* Lines 159-168: the tool_use blocks whose id is not in toolIdsProcessed.
NewToolUseBlocks(r, processed) == SelectSeq(r.tool_use, LAMBDA id : id \notin processed)

\* What the state keeps of a response: the number of its new tool_use blocks,
\* whether it has text, and its stop_reason.
Abstract(r, processed) ==
    [newToolUse |-> Len(NewToolUseBlocks(r, processed)), hasText |-> r.text # <<>>,
     stop_reason |-> r.stop_reason]

\* The loop condition with <= in place of <.
LoopContinuesOffByOne(n) == n <= MAX_ITERATIONS

\* Line 134
LoopContinues(n) == n < MAX_ITERATIONS

\* Line 245
IsFinalAnswer(r) == r.stop_reason = "end_turn" /\ r.text # <<>>

\* The tool-usage test with 1 in place of 2.
TooFewToolCallsOffByOne(n) == n < MIN_TOOL_CALLS - 1

\* Line 249
TooFewToolCalls(n) == n < MIN_TOOL_CALLS

\* The messages of the conversation.  Of response.content a message keeps the
\* tool_use ids, in order; texts are kept by their kind only.
AssistantContent(r) == [role |-> "assistant", kind |-> "content", tool_use |-> r.tool_use,
                        results |-> <<>>]

AssistantText == [role |-> "assistant", kind |-> "text", tool_use |-> <<>>, results |-> <<>>]

UserIntent == [role |-> "user", kind |-> "intent", tool_use |-> <<>>, results |-> <<>>]

UserCorrective == [role |-> "user", kind |-> "corrective", tool_use |-> <<>>, results |-> <<>>]

UserToolResults(rs) == [role |-> "user", kind |-> "tool_results", tool_use |-> <<>>,
                        results |-> rs]

ToolResult(id, isError) == [tool_use_id |-> id, is_error |-> isError]

\* toolResults.unshift in place of toolResults.push.
PushToolResultFront(rs, r) == <<r>> \o rs

\* Lines 212 and 226: toolResults.push
PushToolResult(rs, r) == Append(rs, r)

\* A call of executeLyraTool: the tool-use id it was made for and whether it threw.
Call(id, threw) == [id |-> id, threw |-> threw]

InitParse ==
    /\ pc = "REQUEST_MODEL"
    /\ iterations = 0
    /\ toolCallCount = 0
    /\ toolIdsProcessed = {}
    /\ messages = <<UserIntent>>
    /\ toolUseBlocks = <<>>
    /\ toolResults = <<>>
    /\ lastResponse = NoResponse
    /\ result = NoValue
    /\ error = ""
    /\ modelRequests = 0
    /\ executed = <<>>

\* Lines 134-153: the loop guard, iterations++ and the request to the model.
CallModel(r) ==
    /\ pc = "REQUEST_MODEL"
    /\ LoopContinues(iterations)
    /\ iterations' = iterations + 1
    /\ modelRequests' = modelRequests + 1
    /\ lastResponse' = Abstract(r, toolIdsProcessed)

\* Lines 171-183: the response has new tool calls.
ModelRequestsTools ==
    \E r \in Responses :
        /\ CallModel(r)
        /\ Len(NewToolUseBlocks(r, toolIdsProcessed)) > 0
        /\ toolUseBlocks' = NewToolUseBlocks(r, toolIdsProcessed)
        /\ toolCallCount' = toolCallCount + Len(NewToolUseBlocks(r, toolIdsProcessed))
        /\ messages' = Append(messages, AssistantContent(r))
        /\ toolResults' = <<>>
        /\ pc' = "EXECUTE_TOOLS"
        /\ UNCHANGED <<toolIdsProcessed, result, error, executed>>
        /\ UNCHANGED <<xtText, xtOut, execVars, libVars>>

\* ExecuteTool with the catch of lines 222-232 left out: the tool's error
\* leaves parseIntent.
ExecuteToolUncaught ==
    /\ pc = "EXECUTE_TOOLS"
    /\ LET toolUse == toolUseBlocks[Len(toolResults) + 1]
       IN  /\ toolIdsProcessed' = toolIdsProcessed \cup {toolUse}
           /\ \E threw \in BOOLEAN :
                /\ executed' = Append(executed, Call(toolUse, threw))
                /\ IF threw
                   THEN /\ pc' = "FAILED"
                        /\ error' = "Unknown Lyra tool"
                        /\ UNCHANGED <<toolResults, toolUseBlocks, messages>>
                   ELSE /\ error' = error
                        /\ IF Len(toolResults) + 1 = Len(toolUseBlocks)
                           THEN /\ messages' = Append(messages,
                                      UserToolResults(PushToolResult(toolResults,
                                                                     ToolResult(toolUse, FALSE))))
                                /\ toolResults' = <<>>
                                /\ toolUseBlocks' = <<>>
                                /\ pc' = "REQUEST_MODEL"
                           ELSE /\ toolResults' = PushToolResult(toolResults,
                                                                 ToolResult(toolUse, FALSE))
                                /\ UNCHANGED <<messages, toolUseBlocks, pc>>
    /\ UNCHANGED <<iterations, toolCallCount, lastResponse, result, modelRequests>>
    /\ UNCHANGED <<xtText, xtOut, execVars, libVars>>

\* Lines 183-241: one pass of the for loop over toolUseBlocks.  The id is
\* marked processed, executeLyraTool is awaited and returns or throws, and the
\* tool_result (is_error when it threw) is pushed.  After the last pass the
\* results are pushed to messages and the while loop continues; toolUseBlocks
\* and toolResults go out of scope.
ExecuteTool ==
    /\ pc = "EXECUTE_TOOLS"
    /\ LET toolUse == toolUseBlocks[Len(toolResults) + 1]
       IN  /\ toolIdsProcessed' = toolIdsProcessed \cup {toolUse}
           /\ \E threw \in BOOLEAN :
                /\ executed' = Append(executed, Call(toolUse, threw))
                /\ IF Len(toolResults) + 1 = Len(toolUseBlocks)
                   THEN /\ messages' = Append(messages,
                                  UserToolResults(PushToolResult(toolResults,
                                                                 ToolResult(toolUse, threw))))
                        /\ toolResults' = <<>>
                        /\ toolUseBlocks' = <<>>
                        /\ pc' = "REQUEST_MODEL"
                   ELSE /\ toolResults' = PushToolResult(toolResults, ToolResult(toolUse, threw))
                        /\ UNCHANGED <<messages, toolUseBlocks, pc>>
    /\ UNCHANGED <<iterations, toolCallCount, lastResponse, result, error, modelRequests>>
    /\ UNCHANGED <<xtText, xtOut, execVars, libVars>>

\* ModelAnswersTooEarly with the push of lines 255-258 left out.
ModelAnswersTooEarlyNoEcho ==
    \E r \in ResponsesWithoutNewToolUse(toolIdsProcessed) :
        /\ CallModel(r)
        /\ Len(NewToolUseBlocks(r, toolIdsProcessed)) = 0
        /\ IsFinalAnswer(r)
        /\ TooFewToolCalls(toolCallCount)
        /\ messages' = Append(messages, UserCorrective)
        /\ UNCHANGED <<pc, toolCallCount, toolIdsProcessed, toolUseBlocks, toolResults,
                       result, error, executed>>
        /\ UNCHANGED <<xtText, xtOut, execVars, libVars>>

\* Lines 245-264: a final answer after too few tool calls.
ModelAnswersTooEarly ==
    \E r \in ResponsesWithoutNewToolUse(toolIdsProcessed) :
        /\ CallModel(r)
        /\ Len(NewToolUseBlocks(r, toolIdsProcessed)) = 0
        /\ IsFinalAnswer(r)
        /\ TooFewToolCalls(toolCallCount)
        /\ messages' = Append(Append(messages, AssistantText), UserCorrective)
        /\ UNCHANGED <<pc, toolCallCount, toolIdsProcessed, toolUseBlocks, toolResults,
                       result, error, executed>>
        /\ UNCHANGED <<xtText, xtOut, execVars, libVars>>

\* Lines 245, 266-272: a final answer that is extracted.  The final text is
\* any of Texts; the step depends on it through extractTradeSpec only.
ModelAnswers ==
    \E r \in ResponsesWithoutNewToolUse(toolIdsProcessed), extracted \in ExtractionResults :
        /\ CallModel(r)
        /\ Len(NewToolUseBlocks(r, toolIdsProcessed)) = 0
        /\ IsFinalAnswer(r)
        /\ ~TooFewToolCalls(toolCallCount)
        \* return this.extractTradeSpec(textContent)
        /\ result' = extracted.value
        /\ error' = extracted.error
        /\ pc' = IF extracted.error = "" THEN "DONE" ELSE "FAILED"
        /\ UNCHANGED <<toolCallCount, toolIdsProcessed, messages, toolUseBlocks,
                       toolResults, executed>>
        /\ UNCHANGED <<xtText, xtOut, execVars, libVars>>

\* ModelUnexpected with a continue in place of the throw of line 276.
ModelUnexpectedRetry ==
    \E r \in ResponsesWithoutNewToolUse(toolIdsProcessed) :
        /\ CallModel(r)
        /\ Len(NewToolUseBlocks(r, toolIdsProcessed)) = 0
        /\ ~IsFinalAnswer(r)
        /\ UNCHANGED <<pc, toolCallCount, toolIdsProcessed, messages, toolUseBlocks,
                       toolResults, result, error, executed>>
        /\ UNCHANGED <<xtText, xtOut, execVars, libVars>>

\* Lines 275-276
ModelUnexpected ==
    \E r \in ResponsesWithoutNewToolUse(toolIdsProcessed) :
        /\ CallModel(r)
        /\ Len(NewToolUseBlocks(r, toolIdsProcessed)) = 0
        /\ ~IsFinalAnswer(r)
        /\ pc' = "FAILED"
        /\ error' = ERR_UNEXPECTED
        /\ UNCHANGED <<toolCallCount, toolIdsProcessed, messages, toolUseBlocks,
                       toolResults, result, executed>>
        /\ UNCHANGED <<xtText, xtOut, execVars, libVars>>

\* Lines 134, 279: the loop guard fails.
IterationsExceeded ==
    /\ pc = "REQUEST_MODEL"
    /\ ~LoopContinues(iterations)
    /\ pc' = "FAILED"
    /\ error' = ERR_ITERATIONS
    /\ UNCHANGED <<iterations, toolCallCount, toolIdsProcessed, messages, toolUseBlocks,
                   toolResults, lastResponse, result, modelRequests, executed>>
    /\ UNCHANGED <<xtText, xtOut, execVars, libVars>>

NextParse ==
    \/ ModelRequestsTools
    \/ ExecuteTool
    \/ ModelAnswersTooEarly
    \/ ModelAnswers
    \/ ModelUnexpected
    \/ IterationsExceeded

(***************************************************************************)
(* Safety gate (src/unnamed/part_000, safety.ts)                           *)
(***************************************************************************)
DEFAULT_MAX_TRADE_COST_USD == 200

DEFAULT_MAX_CONTRACTS_PER_LEG == 10

DEFAULT_MAX_SPREAD_PERCENT == 5

\* process.env: the limits at their defaults, SAFE_MODE set or not.
Envs == [maxTradeCostUsd : {DEFAULT_MAX_TRADE_COST_USD},
         maxContractsPerLeg : {DEFAULT_MAX_CONTRACTS_PER_LEG},
         maxSpreadPercent : {DEFAULT_MAX_SPREAD_PERCENT},
         safeModeEnabled : BOOLEAN]

getSafetyConfig(e) ==
    [maxTradeCostUsd |-> e.maxTradeCostUsd,
     maxContractsPerLeg |-> e.maxContractsPerLeg,
     maxSpreadPercent |-> e.maxSpreadPercent,
     safeModeEnabled |-> e.safeModeEnabled]

\* A spread in percent is the fraction num/den (den > 0); null is NoSpread.
NoSpread == [num |-> -1, den |-> 0]

Fraction(n, d) == [num |-> n, den |-> d]

FracLeqInt(f, k) == f.num <= k * f.den

FracMax(a, b) == IF a.num * b.den >= b.num * a.den THEN a ELSE b

\* Dollar amounts that need cent resolution are carried in cents.
CentsPerUsd == 100

\* The amount of the first leg in place of the largest.
MaxAmountOfFirstLeg(legs) == legs[1].amount

\* Line 470
MaxAmount(legs) == Max({legs[i].amount : i \in 1..Len(legs)})

\* The cost check with < in place of <=.
PassesMaxCostStrict(estimatedCost, cfg) ==
    estimatedCost < cfg.maxTradeCostUsd * CentsPerUsd

\* Line 462; estimatedCost is in cents.
PassesMaxCost(estimatedCost, cfg) ==
    estimatedCost <= cfg.maxTradeCostUsd * CentsPerUsd

\* The spread check with a null spread failing.
PassesSpreadCheckNullFails(spreadPercent, cfg) ==
    spreadPercent # NoSpread /\ FracLeqInt(spreadPercent, cfg.maxSpreadPercent)

\* Lines 479-489
PassesSpreadCheck(spreadPercent, cfg) ==
    IF spreadPercent # NoSpread
    THEN FracLeqInt(spreadPercent, cfg.maxSpreadPercent)
    ELSE TRUE

\* The verdict with a failed spread check blocking in either mode.
AllPassedSpreadAlwaysBlocks(cost, contracts, spread, cfg) ==
    cost /\ contracts /\ spread

\* Lines 498-499
AllPassed(cost, contracts, spread, cfg) ==
    cost /\ contracts /\ (spread \/ ~cfg.safeModeEnabled)

W_NO_LIQUIDITY == "Could not calculate bid-ask spread - no liquidity data"

W_SPREAD == "Bid-ask spread exceeds threshold"

W_MAX_LOSS == "Max loss exceeds safety threshold"

E_COST == "Trade cost exceeds maximum allowed"

E_CONTRACTS == "Max contracts per leg exceeds limit"

\* estimatedCost is in cents, everything else in the units of the source.
runSafetyChecks(tradeSpec, estimatedCost, spreadPercent, e) ==
    LET cfg == getSafetyConfig(e)
        passes_max_cost == PassesMaxCost(estimatedCost, cfg)
        passes_max_contracts == MaxAmount(tradeSpec.legs) <= cfg.maxContractsPerLeg
        passes_spread_check == PassesSpreadCheck(spreadPercent, cfg)
    IN  [passes_max_cost |-> passes_max_cost,
         passes_max_contracts |-> passes_max_contracts,
         passes_spread_check |-> passes_spread_check,
         spread_percent |-> spreadPercent,
         all_passed |-> AllPassed(passes_max_cost, passes_max_contracts,
                                  passes_spread_check, cfg),
         warnings |-> (IF spreadPercent = NoSpread THEN <<W_NO_LIQUIDITY>>
                       ELSE IF ~passes_spread_check THEN <<W_SPREAD>> ELSE <<>>)
                      \o (IF tradeSpec.max_loss_usd > cfg.maxTradeCostUsd
                          THEN <<W_MAX_LOSS>> ELSE <<>>),
         errors |-> (IF ~passes_max_cost THEN <<E_COST>> ELSE <<>>)
                    \o (IF ~passes_max_contracts THEN <<E_CONTRACTS>> ELSE <<>>),
         computed |-> TRUE]

NoSafetyResult ==
    [passes_max_cost |-> FALSE, passes_max_contracts |-> FALSE,
     passes_spread_check |-> FALSE, spread_percent |-> NoSpread, all_passed |-> FALSE,
     warnings |-> <<>>, errors |-> <<>>, computed |-> FALSE]

(***************************************************************************)
(* The execute route (src/app/api/parse-intent/route.ts, lines 78-259)     *)
(***************************************************************************)
MaxLegs == 2            \* legs of a submitted trade

Instruments == {"ETH-20250124-3500-C", "ETH-20250124-4000-C"}

\* The legs a request may carry: one contract bought, two bought (over the
\* cost limit at an ask of 105), one sold, eleven sold (over the contracts
\* limit, within the cost limit).
LegChoices ==
    {Leg("ETH-20250124-3500-C", "buy", 1), Leg("ETH-20250124-3500-C", "buy", 2),
     Leg("ETH-20250124-4000-C", "sell", 1), Leg("ETH-20250124-4000-C", "sell", 11)}

LegSeqs == UNION {[1..n -> LegChoices] : n \in 0..MaxLegs}

Confirmations == {"true", "false", "missing"}

Requests == [tradeSpec : {[ValidSpec EXCEPT !.legs = ls] : ls \in LegSeqs},
             confirmed : Confirmations]

\* What getTicker resolves to: a two-sided tight quote, a two-sided wide quote,
\* no quote at all (best_bid_price and best_ask_price null).
NoPrice == -1

Tickers == {[bid |-> 100, ask |-> 105, mark |-> 102],
            [bid |-> 100, ask |-> 120, mark |-> 110],
            [bid |-> NoPrice, ask |-> NoPrice, mark |-> 102]}

NoPrices == [bid |-> NoPrice, ask |-> NoPrice, mark |-> NoPrice]

\* schemas.ts lines 103-108
ExecuteTradeRequestSchema(req) ==
    /\ TradeSpecSchema(req.tradeSpec)
    /\ req.confirmed = "true"

\* RequestRejection with the confirmed field ignored.
RequestRejectionUnconfirmed(req) ==
    IF ~TradeSpecSchema(req.tradeSpec) THEN "Invalid request" ELSE ""

\* Lines 86-120: the error the handler answers with (status 400) before it
\* reads the configuration and fetches any price; "" when it goes on.
RequestRejection(req) ==
    IF ~ExecuteTradeRequestSchema(req) THEN "Invalid request"
    ELSE IF req.confirmed # "true" THEN "Trade must be explicitly confirmed"
    ELSE IF ~TradeSpecSchema(req.tradeSpec) THEN "Invalid trade specification"
    ELSE ""

Response(status, err, success) == [status |-> status, error |-> err, success |-> success]

NoResponseYet == Response(0, "", FALSE)

InitExec ==
    /\ xpc = "START"
    /\ request \in Requests
    /\ env \in Envs
    /\ config = getSafetyConfig([maxTradeCostUsd |-> 0, maxContractsPerLeg |-> 0,
                                 maxSpreadPercent |-> 0, safeModeEnabled |-> TRUE])
    /\ legIdx = 0
    /\ totalEstimatedCost = 0
    /\ maxSpread = NoSpread
    /\ pricesMap = [i \in Instruments |-> NoPrices]
    /\ safetyResult = NoSafetyResult
    /\ orders = <<>>
    /\ submitted = <<>>
    /\ tickerCalls = 0
    /\ response = NoResponseYet

\* Lines 86-130
ValidateRequest ==
    /\ xpc = "START"
    /\ IF RequestRejection(request) # ""
       THEN /\ response' = Response(400, RequestRejection(request), FALSE)
            /\ xpc' = "RESPONDED"
            /\ UNCHANGED <<config, legIdx>>
       ELSE /\ config' = getSafetyConfig(env)
            /\ legIdx' = 1
            /\ xpc' = "FETCH_PRICES"
            /\ UNCHANGED response
    /\ UNCHANGED <<request, env, totalEstimatedCost, maxSpread, pricesMap, safetyResult,
                   orders, submitted, tickerCalls>>
    /\ UNCHANGED <<parseVars, extractVars, libVars>>

\* Lines 141-148: use ask for buys, bid for sells, mark when there is none.
LegCost(leg, t) ==
    IF leg.side = "buy"
    THEN (IF t.ask # NoPrice THEN t.ask ELSE t.mark) * leg.amount
    ELSE -((IF t.bid # NoPrice THEN t.bid ELSE t.mark) * leg.amount)

\* Lines 150-157
TrackSpread(spread, t) ==
    IF t.bid # NoPrice /\ t.ask # NoPrice /\ t.bid > 0
    THEN LET s == Fraction((t.ask - t.bid) * 200, t.bid + t.ask)
         IN  IF spread # NoSpread THEN FracMax(spread, s) ELSE s
    ELSE spread

\* Lines 132-157: getTicker resolves for the leg at legIdx.
FetchPrice ==
    /\ xpc = "FETCH_PRICES"
    /\ \E t \in Tickers :
        LET leg == request.tradeSpec.legs[legIdx]
        IN  /\ pricesMap' = [pricesMap EXCEPT ![leg.instrument_name] = t]
            /\ totalEstimatedCost' = totalEstimatedCost + LegCost(leg, t)
            /\ maxSpread' = TrackSpread(maxSpread, t)
    /\ tickerCalls' = tickerCalls + 1
    /\ IF legIdx = Len(request.tradeSpec.legs)
       THEN xpc' = "SAFETY_CHECKS" /\ legIdx' = 0
       ELSE xpc' = xpc /\ legIdx' = legIdx + 1
    /\ UNCHANGED <<request, env, config, safetyResult, orders, submitted, response>>
    /\ UNCHANGED <<parseVars, extractVars, libVars>>

\* FetchPriceFails with the catch going on to the next leg instead of
\* answering.
FetchPriceFailsSkipsLeg ==
    /\ xpc = "FETCH_PRICES"
    /\ tickerCalls' = tickerCalls + 1
    /\ IF legIdx = Len(request.tradeSpec.legs)
       THEN xpc' = "SAFETY_CHECKS" /\ legIdx' = 0
       ELSE xpc' = xpc /\ legIdx' = legIdx + 1
    /\ UNCHANGED <<request, env, config, totalEstimatedCost, maxSpread, pricesMap,
                   safetyResult, orders, submitted, response>>
    /\ UNCHANGED <<parseVars, extractVars, libVars>>

\* Lines 158-166: getTicker rejects for the leg at legIdx.
FetchPriceFails ==
    /\ xpc = "FETCH_PRICES"
    /\ tickerCalls' = tickerCalls + 1
    /\ response' = Response(400, "Failed to fetch price for instrument", FALSE)
    /\ xpc' = "RESPONDED"
    /\ UNCHANGED <<request, env, config, legIdx, totalEstimatedCost, maxSpread, pricesMap,
                   safetyResult, orders, submitted>>
    /\ UNCHANGED <<parseVars, extractVars, libVars>>

\* SafetyBlocks looking at the cost limit only.
SafetyBlocksOnCostOnly(res, cfg) == ~res.passes_max_cost /\ cfg.safeModeEnabled

\* Line 172: the condition under which the handler answers 403.
SafetyBlocks(res, cfg) == ~res.all_passed /\ cfg.safeModeEnabled

\* Lines 169-180
RunSafetyChecks ==
    /\ xpc = "SAFETY_CHECKS"
    /\ safetyResult' = runSafetyChecks(request.tradeSpec, totalEstimatedCost * CentsPerUsd,
                                        maxSpread, env)
    /\ IF SafetyBlocks(safetyResult', config)
       THEN /\ response' = Response(403, "Safety checks failed", FALSE)
            /\ xpc' = "RESPONDED"
            /\ UNCHANGED legIdx
       ELSE /\ xpc' = "SUBMIT_ORDERS"
            /\ legIdx' = 1
            /\ UNCHANGED response
    /\ UNCHANGED <<request, env, config, totalEstimatedCost, maxSpread, pricesMap, orders,
                   submitted, tickerCalls>>
    /\ UNCHANGED <<parseVars, extractVars, libVars>>

\* Lines 202-213, in tenths of a dollar (the tick size).
LimitPrice(leg, prices) ==
    IF leg.side = "buy"
    THEN (IF prices.ask # NoPrice /\ prices.ask > 0 THEN prices.ask * 10
          ELSE (prices.mark * 105 + 9) \div 10)
    ELSE (IF prices.bid # NoPrice /\ prices.bid > 0 THEN prices.bid * 10
          ELSE (prices.mark * 95) \div 10)

Order(name, id, status, err) ==
    [instrument_name |-> name, order_id |-> id, status |-> status, error |-> err]

\* AllSucceeded looking at the first order only.
AllSucceededFirstOnly(os) == os = <<>> \/ (os[1].status # "failed" /\ os[1].order_id # "")

\* Lines 239-241
AllSucceeded(os) == \A i \in 1..Len(os) : os[i].status # "failed" /\ os[i].order_id # ""

\* Lines 190-248: one pass of the for loop over the legs; after the last one
\* the handler answers 200.
SubmitOrder ==
    /\ xpc = "SUBMIT_ORDERS"
    /\ LET leg == request.tradeSpec.legs[legIdx]
           prices == pricesMap[leg.instrument_name]
       IN  IF prices = NoPrices
           THEN /\ orders' = Append(orders, Order(leg.instrument_name, "", "failed", "No price data"))
                /\ UNCHANGED submitted
           ELSE \* submitOrder resolves or rejects
                \E ok \in BOOLEAN :
                    /\ submitted' = Append(submitted,
                           [instrument_name |-> leg.instrument_name, side |-> leg.side,
                            amount |-> leg.amount, limit_price |-> LimitPrice(leg, prices),
                            rejected |-> ~ok])
                    /\ orders' = Append(orders,
                           IF ok THEN Order(leg.instrument_name, "order-123", "open", "")
                           ELSE Order(leg.instrument_name, "", "failed", "Insufficient margin"))
    /\ IF legIdx = Len(request.tradeSpec.legs)
       THEN /\ response' = Response(200, "", AllSucceeded(orders'))
            /\ xpc' = "RESPONDED"
            /\ legIdx' = 0
       ELSE /\ legIdx' = legIdx + 1
            /\ UNCHANGED <<xpc, response>>
    /\ UNCHANGED <<request, env, config, totalEstimatedCost, maxSpread, pricesMap,
                   safetyResult, tickerCalls>>
    /\ UNCHANGED <<parseVars, extractVars, libVars>>

\* SAFE_MODE is changed in process.env while the handler awaits.
EnvChange ==
    /\ xpc \in {"FETCH_PRICES", "SUBMIT_ORDERS"}
    /\ env' = [env EXCEPT !.safeModeEnabled = ~env.safeModeEnabled]
    /\ UNCHANGED <<xpc, request, config, legIdx, totalEstimatedCost, maxSpread, pricesMap,
                   safetyResult, orders, submitted, tickerCalls, response>>
    /\ UNCHANGED <<parseVars, extractVars, libVars>>

NextExec ==
    \/ ValidateRequest
    \/ FetchPrice
    \/ FetchPriceFails
    \/ RunSafetyChecks
    \/ SubmitOrder
    \/ EnvChange

(***************************************************************************)
(* Specifications                                                          *)
(***************************************************************************)
IdleParse ==
    /\ pc = "IDLE"
    /\ iterations = 0
    /\ toolCallCount = 0
    /\ toolIdsProcessed = {}
    /\ messages = <<>>
    /\ toolUseBlocks = <<>>
    /\ toolResults = <<>>
    /\ lastResponse = NoResponse
    /\ result = NoValue
    /\ error = ""
    /\ modelRequests = 0
    /\ executed = <<>>

IdleExec ==
    /\ xpc = "IDLE"
    /\ request = [tradeSpec |-> ValidSpec, confirmed |-> "missing"]
    /\ env = getSafetyConfig([maxTradeCostUsd |-> DEFAULT_MAX_TRADE_COST_USD,
                              maxContractsPerLeg |-> DEFAULT_MAX_CONTRACTS_PER_LEG,
                              maxSpreadPercent |-> DEFAULT_MAX_SPREAD_PERCENT,
                              safeModeEnabled |-> TRUE])
    /\ config = env
    /\ legIdx = 0
    /\ totalEstimatedCost = 0
    /\ maxSpread = NoSpread
    /\ pricesMap = [i \in Instruments |-> NoPrices]
    /\ safetyResult = NoSafetyResult
    /\ orders = <<>>
    /\ submitted = <<>>
    /\ tickerCalls = 0
    /\ response = NoResponseYet

IdleExtract ==
    /\ xtText = <<>>
    /\ xtOut = NotExtracted

IdleLib ==
    /\ fnCall = NoCall
    /\ fnReturn = NotReturned
    /\ tpc = "START"
    /\ promises = <<>>
    /\ completed = <<>>

ParseInit == InitParse /\ IdleExtract /\ IdleExec /\ IdleLib

ExtractInit == IdleParse /\ InitExtract /\ IdleExec /\ IdleLib

ExecInit == IdleParse /\ IdleExtract /\ InitExec /\ IdleLib

\* One run of parseIntent.
SpecParse == ParseInit /\ [][NextParse]_vars

\* One run of parseIntent in which every awaited call returns.
FairSpecParse == SpecParse /\ WF_vars(NextParse)

\* One call of extractTradeSpec.
SpecExtract == ExtractInit /\ [][NextExtract]_vars

\* One request to the execute route.
SpecExec == ExecInit /\ [][NextExec]_vars

(***************************************************************************)
(* Properties                                                              *)
(***************************************************************************)
RECURSIVE ResultsIn(_)
\* The tool_result entries of the first k messages, in order.
ResultsIn(k) == IF k = 0 THEN <<>> ELSE ResultsIn(k - 1) \o messages[k].results

\* The tool_result entries recorded so far: those pushed to the conversation
\* and those of the turn being executed.
ResultsLog == ResultsIn(Len(messages)) \o toolResults

ResultIds(rs) == [i \in 1..Len(rs) |-> rs[i].tool_use_id]

IdsAnsweredIn(k) == {ResultsIn(k)[i].tool_use_id : i \in 1..Len(ResultsIn(k))}

\* C1: parseIntent returns a TradeSpec (DONE), or even hands a final text to
\* extractTradeSpec, only after at least 2 calls of executeLyraTool in the run.
C1_ReturnOnlyAfterTwoToolInvocations ==
    (pc = "DONE" \/ result # NoValue \/ error \in {ERR_PARSE, ERR_SCHEMA})
        => Len(executed) >= 2

\* A TradeSpec is returned after exactly two tool invocations, in a run in
\* which an earlier final answer was turned down.
C1_Witness ==
    /\ pc = "DONE"
    /\ Len(executed) = 2
    /\ \E k \in 1..Len(messages) : messages[k].kind = "corrective"

C3_UnconfirmedIsRejected ==
    request.confirmed # "true" =>
        /\ xpc \in {"START", "RESPONDED"}
        /\ tickerCalls = 0
        /\ submitted = <<>>
        /\ xpc = "RESPONDED" => response.status = 400

\* An otherwise valid request with confirmed = false has been answered.
C3_Witness ==
    /\ request.confirmed = "false"
    /\ TradeSpecSchema(request.tradeSpec)
    /\ xpc = "RESPONDED"
    /\ response.status = 400

\* C4: at most 10 model requests are made; when 10 iterations have passed
\* without a return the run fails with the iterations error and returns
\* nothing; a failed run returns no TradeSpec; and, every awaited call
\* returning, the run ends in DONE or FAILED.
C4_BoundedAndTerminates ==
    /\ [](modelRequests <= 10)
    /\ [][(pc = "REQUEST_MODEL" /\ iterations = 10)
            => (pc' = "FAILED" /\ error' = "Agent exceeded maximum iterations"
                /\ result' = NoValue /\ modelRequests' = modelRequests)]_vars
    /\ [](pc = "FAILED" => result = NoValue)
    /\ [](pc = "DONE" => (result # NoValue /\ error = ""))
    /\ <>(pc \in {"DONE", "FAILED"})

\* The run has failed on the iteration bound, after ten model requests.
C4_Witness ==
    /\ pc = "FAILED"
    /\ error = ERR_ITERATIONS
    /\ modelRequests = 10

\* C5 as stated: no tool-use id is passed to executeLyraTool twice in a run.
C5_EachIdExecutedAtMostOnce ==
    \A i, j \in 1..Len(executed) : i # j => executed[i].id # executed[j].id

\* The conditions of the TradeSpec schema, as C6 lists them.
C6_SatisfiesSchema(v) ==
    /\ v.kind = "object"
    /\ v.legs # <<>>
    /\ \A i \in 1..Len(v.legs) :
          /\ v.legs[i].instrument_name # ""
          /\ v.legs[i].side \in {"buy", "sell"}
          /\ v.legs[i].amount > 0
    /\ v.max_cost_usd >= 0
    /\ v.max_loss_usd >= 0
    /\ v.underlying # "" /\ v.strategy # "" /\ v.expiry # "" /\ v.explanation # ""

\* C6: a value extractTradeSpec returns (the only value parseIntent returns)
\* satisfies the TradeSpec schema; when the candidate is not JSON or the
\* parsed value violates the schema, it throws and returns nothing.
C6_ReturnedValueSatisfiesSchema ==
    xtOut # NotExtracted =>
        /\ xtOut.error = "" => (xtOut.value # NoValue /\ C6_SatisfiesSchema(xtOut.value))
        /\ ~JsonParses(JsonCandidate(xtText)) => (xtOut.error # "" /\ xtOut.value = NoValue)
        /\ (JsonParses(JsonCandidate(xtText))
              /\ ~C6_SatisfiesSchema(JsonParse(JsonCandidate(xtText))))
             => (xtOut.error # "" /\ xtOut.value = NoValue)

\* A two-leg TradeSpec has been returned from a text with prose around it.
C6_Witness ==
    /\ xtOut.error = ""
    /\ Len(xtOut.value.legs) = 2
    /\ Head(xtText) = "p"

\* C7: when executeLyraTool throws, a tool_result with is_error = TRUE is
\* recorded for that id, the run does not fail, the remaining tool
\* invocations of the turn stay to be executed, and after the last one the
\* results are appended and the loop is back at requesting the model.
C7_ToolFailureDoesNotAbort ==
    [][(Len(executed') = Len(executed) + 1 /\ executed'[Len(executed')].threw)
        => LET rs == Append(toolResults, ToolResult(executed'[Len(executed')].id, TRUE))
           IN  /\ error' = ""
               /\ IF Len(rs) < Len(toolUseBlocks)
                  THEN /\ pc' = "EXECUTE_TOOLS"
                       /\ toolResults' = rs
                       /\ toolUseBlocks' = toolUseBlocks
                  ELSE /\ pc' = "REQUEST_MODEL"
                       /\ messages' = Append(messages, UserToolResults(rs))]_vars

\* The first tool of a turn threw, the second ran, both results are in the
\* conversation and the model has been requested again.
C7_Witness ==
    /\ modelRequests >= 2
    /\ \E k \in 1..Len(messages) :
        /\ messages[k].kind = "tool_results"
        /\ Len(messages[k].results) = 2
        /\ messages[k].results[1].is_error
        /\ ~messages[k].results[2].is_error

\* C8: the tools of a turn are executed in the order of their tool_use blocks
\* and the tool_result entries are in that order, one per executed invocation:
\* the results of the turn under way are those of the first blocks, in order;
\* every tool_results message answers, in order, the new blocks of the
\* assistant message before it; results and calls match one to one.
C8_ResultsInInvocationOrder ==
    /\ pc = "EXECUTE_TOOLS" =>
          /\ Len(toolResults) < Len(toolUseBlocks)
          /\ ResultIds(toolResults) = SubSeq(toolUseBlocks, 1, Len(toolResults))
    /\ \A k \in 1..Len(messages) :
          messages[k].kind = "tool_results" =>
              /\ k > 1
              /\ messages[k - 1].kind = "content"
              /\ ResultIds(messages[k].results)
                    = SelectSeq(messages[k - 1].tool_use,
                                LAMBDA id : id \notin IdsAnsweredIn(k - 1))
    /\ ResultIds(ResultsLog) = [i \in 1..Len(executed) |-> executed[i].id]

\* A turn with two different tools has been executed and answered.
C8_Witness ==
    \E k \in 1..Len(messages) :
        /\ messages[k].kind = "tool_results"
        /\ Len(messages[k].results) = 2
        /\ messages[k].results[1].tool_use_id # messages[k].results[2].tool_use_id

\* C9: a response with no new tool_use block that is not (end_turn with text)
\* fails the run at once with the unexpected-state error, nothing appended and
\* no tool executed; a failed run makes no further request and executes no tool.
C9_UnrecognizedResponseFails ==
    /\ [][(modelRequests' = modelRequests + 1
            /\ lastResponse'.newToolUse = 0
            /\ ~(lastResponse'.stop_reason = "end_turn" /\ lastResponse'.hasText))
          => (/\ pc' = "FAILED"
              /\ error' = "Unexpected agent state"
              /\ result' = NoValue
              /\ messages' = messages
              /\ executed' = executed)]_vars
    /\ [][pc = "FAILED" => (modelRequests' = modelRequests /\ executed' = executed)]_vars

\* The run failed on a response with text that did not end the turn.
C9_Witness ==
    /\ pc = "FAILED"
    /\ error = ERR_UNEXPECTED
    /\ lastResponse.hasText
    /\ lastResponse.stop_reason = "max_tokens"
    /\ Len(executed) >= 1

\* C10: a final text answer after fewer than 2 tool invocations appends the
\* assistant text and one corrective user instruction, leaves the loop at
\* requesting the model (neither DONE nor FAILED) and uses up one iteration.
C10_OneCorrectiveTurn ==
    [][(modelRequests' = modelRequests + 1
         /\ lastResponse'.newToolUse = 0
         /\ lastResponse'.stop_reason = "end_turn" /\ lastResponse'.hasText
         /\ Len(executed) < 2)
       => (/\ messages' = messages \o <<AssistantText, UserCorrective>>
           /\ pc' = "REQUEST_MODEL"
           /\ iterations' = iterations + 1
           /\ result' = NoValue /\ error' = ""
           /\ executed' = executed /\ toolCallCount' = toolCallCount)]_vars

\* One tool was invoked and the final answer that followed was turned down.
C10_Witness ==
    /\ pc = "REQUEST_MODEL"
    /\ Len(executed) = 1
    /\ messages[Len(messages)] = UserCorrective
    /\ messages[Len(messages) - 1] = AssistantText

(***************************************************************************)
(* The candidate extractTradeSpec hands to JSON.parse                       *)
(***************************************************************************)
\* The position of the "}" that closes the "{" at position i - 1, given the
\* nesting depth reached at position i; 0 when the text ends first.
RECURSIVE C11_MatchingClose(_, _, _)
C11_MatchingClose(text, i, depth) ==
    IF i > Len(text) THEN 0
    ELSE IF text[i] = "{" THEN C11_MatchingClose(text, i + 1, depth + 1)
    ELSE IF text[i] = "}"
         THEN IF depth = 1 THEN i ELSE C11_MatchingClose(text, i + 1, depth - 1)
    ELSE C11_MatchingClose(text, i + 1, depth)

C11_HasTopLevelSpan(text) ==
    /\ Positions(text, "{") # {}
    /\ C11_MatchingClose(text, Min(Positions(text, "{")) + 1, 1) # 0

C11_FirstTopLevelSpan(text) ==
    LET open == Min(Positions(text, "{"))
    IN  SubSeq(text, open, C11_MatchingClose(text, open + 1, 1))

\* The fallback chain: fenced content, else first top-level span, else the
\* trimmed text.
C11_FallbackChain(text) ==
    IF HasFence(text) THEN FenceContent(text)
    ELSE IF C11_HasTopLevelSpan(text) THEN C11_FirstTopLevelSpan(text)
    ELSE Trim(text)

\* C11: the candidate extractTradeSpec parses is the content of the fenced
\* block if the text has one, otherwise the first top-level {...} span,
\* otherwise the trimmed text; so what it returns or throws is what parsing
\* and validating that candidate gives.
C11_CandidateFollowsFallbackChain ==
    xtOut # NotExtracted =>
        /\ JsonCandidate(xtText) = C11_FallbackChain(xtText)
        /\ xtOut.error = "" <=>
               (/\ JsonParses(C11_FallbackChain(xtText))
                /\ TradeSpecSchema(JsonParse(C11_FallbackChain(xtText))))

(***************************************************************************)
(* src/lib/safety.ts called on its own: runSafetyChecks and                 *)
(* validateTradeBeforeExecution                                            *)
(***************************************************************************)
MaxErrors == 2          \* entries of a preview's safety_checks.errors

\* process.env with the limits at their defaults or set, SAFE_MODE set or not.
SafetyEnvs == [maxTradeCostUsd : {DEFAULT_MAX_TRADE_COST_USD, 250},
               maxContractsPerLeg : {DEFAULT_MAX_CONTRACTS_PER_LEG, 1},
               maxSpreadPercent : {DEFAULT_MAX_SPREAD_PERCENT},
               safeModeEnabled : BOOLEAN]

\* Leg amounts below, at and above either contracts limit.
SafetyLegs == {Leg("ETH-20250124-3500-C", "buy", a) : a \in {1, 10, 11}}

SafetyLegSeqs == UNION {[1..n -> SafetyLegs] : n \in 1..MaxLegs}

SafetyTradeSpecs ==
    {[ValidSpec EXCEPT !.legs = ls, !.max_loss_usd = l] :
        ls \in SafetyLegSeqs, l \in {100, 201}}

\* Estimated costs in cents: a net credit, nothing, one cent below, at and one
\* cent above the default limit, and above both limits.
SafetyCosts == {-5000, 0, 19999, 20000, 20001, 30000}

\* Spreads in percent: none, 2, exactly 5, 5.01 and 10.
SafetySpreads ==
    {NoSpread, Fraction(2, 1), Fraction(5, 1), Fraction(501, 100), Fraction(10, 1)}

RunSafetyChecksCalls ==
    [fn : {"runSafetyChecks"}, tradeSpec : SafetyTradeSpecs,
     estimatedCost : SafetyCosts, spreadPercent : SafetySpreads, env : SafetyEnvs]

CallRunSafetyChecks ==
    /\ fnCall.fn = "runSafetyChecks"
    /\ fnReturn = NotReturned
    /\ fnReturn' = runSafetyChecks(fnCall.tradeSpec, fnCall.estimatedCost,
                                   fnCall.spreadPercent, fnCall.env)
    /\ UNCHANGED <<fnCall, tpc, promises, completed, parseVars, extractVars, execVars>>

\* errors.join("; ")
RECURSIVE Join(_)
Join(strs) ==
    IF strs = <<>> THEN <<>>
    ELSE IF Len(strs) = 1 THEN strs
    ELSE <<Head(strs), "; ">> \o Join(Tail(strs))

R_COST == "Trade cost exceeds maximum of $"

R_CONTRACTS == "Contracts per leg exceeds maximum of "

\* validateTradeBeforeExecution with the safe-mode early return left out.
validateTradeBeforeExecutionAlwaysSafe(preview, e) ==
    LET cfg == getSafetyConfig(e)
    IN  IF ~preview.safety_checks.passes_max_cost
        THEN [canExecute |-> FALSE, reason |-> <<R_COST, cfg.maxTradeCostUsd>>]
        ELSE IF ~preview.safety_checks.passes_max_contracts
        THEN [canExecute |-> FALSE, reason |-> <<R_CONTRACTS, cfg.maxContractsPerLeg>>]
        ELSE IF Len(preview.safety_checks.errors) > 0
        THEN [canExecute |-> FALSE, reason |-> Join(preview.safety_checks.errors)]
        ELSE [canExecute |-> TRUE, reason |-> <<>>]

\* Lines 512-544; reason is <<>> when the result carries none.
validateTradeBeforeExecution(preview, e) ==
    LET cfg == getSafetyConfig(e)
    IN  IF ~cfg.safeModeEnabled THEN [canExecute |-> TRUE, reason |-> <<>>]
        ELSE IF ~preview.safety_checks.passes_max_cost
        THEN [canExecute |-> FALSE, reason |-> <<R_COST, cfg.maxTradeCostUsd>>]
        ELSE IF ~preview.safety_checks.passes_max_contracts
        THEN [canExecute |-> FALSE, reason |-> <<R_CONTRACTS, cfg.maxContractsPerLeg>>]
        ELSE IF Len(preview.safety_checks.errors) > 0
        THEN [canExecute |-> FALSE, reason |-> Join(preview.safety_checks.errors)]
        ELSE [canExecute |-> TRUE, reason |-> <<>>]

ErrorSeqs == UNION {[1..n -> {E_COST, E_CONTRACTS}] : n \in 0..MaxErrors}

\* The previews a caller may hand in: the flags and the errors of
\* safety_checks in every combination, consistent or not.
Previews ==
    [safety_checks : [passes_max_cost : BOOLEAN, passes_max_contracts : BOOLEAN,
                      errors : ErrorSeqs]]

ValidateCalls ==
    [fn : {"validateTradeBeforeExecution"}, preview : Previews, env : SafetyEnvs]

CallValidateTradeBeforeExecution ==
    /\ fnCall.fn = "validateTradeBeforeExecution"
    /\ fnReturn = NotReturned
    /\ fnReturn' = validateTradeBeforeExecution(fnCall.preview, fnCall.env)
    /\ UNCHANGED <<fnCall, tpc, promises, completed, parseVars, extractVars, execVars>>

(***************************************************************************)
(* src/lib/payoff.ts: calculatePayoff and calculateEntryCost                *)
(*                                                                         *)
(* Prices, premiums and P&L are carried in units of 1/UnitsPerUsd dollar,   *)
(* fine enough that every halving of the breakeven search and every        *)
(* division of the price range is exact for the inputs below; the source   *)
(* computes them in double precision.                                      *)
(***************************************************************************)
UnitsPerUsd == 25600

Cent == UnitsPerUsd \div 100

Usd(n) == n * UnitsPerUsd

\* Math.round(x * 100) / 100: to the nearest cent, halves upwards.
RoundToCents(x) == ((x + Cent \div 2) \div Cent) * Cent

Abs(x) == IF x < 0 THEN -x ELSE x

Max2(a, b) == IF a >= b THEN a ELSE b

\* leg.instrument_name.match(/^[A-Z]+-\d{8}-(\d+)-([CP])$/): the strike and
\* the option type of the names that match.
InstrumentFormat ==
    [x \in {"ETH-20250124-3500-C", "ETH-20250124-4000-C",
            "ETH-20250124-3500-P", "ETH-20250124-3000-P"} |->
        CASE x = "ETH-20250124-3500-C" -> [strike |-> 3500, optionType |-> "C"]
          [] x = "ETH-20250124-4000-C" -> [strike |-> 4000, optionType |-> "C"]
          [] x = "ETH-20250124-3500-P" -> [strike |-> 3500, optionType |-> "P"]
          [] x = "ETH-20250124-3000-P" -> [strike |-> 3000, optionType |-> "P"]]

\* premiums.get(leg.instrument_name) || 0
PremiumOf(premiums, name) ==
    IF name \in DOMAIN premiums THEN premiums[name] ELSE 0

NoLeg == [instrument_name |-> "", side |-> "", amount |-> 0,
          strike |-> 0, optionType |-> "", premium |-> 0]

\* A parseLeg that keeps a leg of any name, as a call of strike 0.
parseLegKeepsAll(leg, premium) ==
    [instrument_name |-> leg.instrument_name, side |-> leg.side,
     amount |-> leg.amount,
     strike |-> IF leg.instrument_name \in DOMAIN InstrumentFormat
                THEN Usd(InstrumentFormat[leg.instrument_name].strike) ELSE 0,
     optionType |-> IF leg.instrument_name \in DOMAIN InstrumentFormat
                    THEN InstrumentFormat[leg.instrument_name].optionType ELSE "C",
     premium |-> premium]

\* Lines 708-719: null (NoLeg) for a name that does not match the pattern.
parseLeg(leg, premium) ==
    IF leg.instrument_name \notin DOMAIN InstrumentFormat THEN NoLeg
    ELSE [instrument_name |-> leg.instrument_name, side |-> leg.side,
          amount |-> leg.amount,
          strike |-> Usd(InstrumentFormat[leg.instrument_name].strike),
          optionType |-> InstrumentFormat[leg.instrument_name].optionType,
          premium |-> premium]

\* calculateLegPnl with the premium added instead of subtracted.
calculateLegPnlPremiumAdded(leg, underlyingPrice) ==
    LET intrinsicValue ==
            IF leg.optionType = "C" THEN Max2(0, underlyingPrice - leg.strike)
            ELSE Max2(0, leg.strike - underlyingPrice)
        direction == IF leg.side = "buy" THEN 1 ELSE -1
    IN  (intrinsicValue + leg.premium) * leg.amount * direction

calculateLegPnl(leg, underlyingPrice) ==
    LET intrinsicValue ==
            IF leg.optionType = "C" THEN Max2(0, underlyingPrice - leg.strike)
            ELSE Max2(0, leg.strike - underlyingPrice)
        direction == IF leg.side = "buy" THEN 1 ELSE -1
    IN  (intrinsicValue - leg.premium) * leg.amount * direction

RECURSIVE calculateTotalPnl(_, _)
calculateTotalPnl(legs, underlyingPrice) ==
    IF legs = <<>> THEN 0
    ELSE calculateLegPnl(Head(legs), underlyingPrice)
         + calculateTotalPnl(Tail(legs), underlyingPrice)

SCAN_STEPS == 1000

NUM_POINTS == 100

\* tolerance = 0.01
Tolerance == Cent

CrossesZero(prevPnl, currentPnl) ==
    \/ prevPnl < 0 /\ currentPnl >= 0
    \/ prevPnl >= 0 /\ currentPnl < 0

\* The binary search of lines 765-775: the bracket [low, high] it ends with.
RECURSIVE Bisect(_, _, _, _)
Bisect(legs, prevPnl, low, high) ==
    IF high - low > Tolerance
    THEN LET mid    == (low + high) \div 2
             midPnl == calculateTotalPnl(legs, mid)
         IN  IF (prevPnl < 0 /\ midPnl < 0) \/ (prevPnl >= 0 /\ midPnl >= 0)
             THEN Bisect(legs, prevPnl, mid, high)
             ELSE Bisect(legs, prevPnl, low, mid)
    ELSE [low |-> low, high |-> high]

RECURSIVE SortedSeq(_)
SortedSeq(S) ==
    IF S = {} THEN <<>> ELSE <<Min(S)>> \o SortedSeq(S \ {Min(S)})

\* The scan of findBreakevens never ends when the price range has width 0:
\* step is 0 and price <= maxPrice stays true.
ScanHangs(minPrice, maxPrice) == (maxPrice - minPrice) \div SCAN_STEPS = 0

\* Lines 749-783, for a scan that ends.
findBreakevens(legs, minPrice, maxPrice) ==
    LET step == (maxPrice - minPrice) \div SCAN_STEPS
        pnlAt == [i \in 0..SCAN_STEPS |-> calculateTotalPnl(legs, minPrice + i * step)]
        crossings == {i \in 1..SCAN_STEPS : CrossesZero(pnlAt[i - 1], pnlAt[i])}
        found(i) ==
            LET b == Bisect(legs, pnlAt[i - 1], minPrice + (i - 1) * step,
                            minPrice + i * step)
            IN  RoundToCents((b.low + b.high) \div 2)
        order == SortedSeq(crossings)
    IN  [k \in 1..Len(order) |-> found(order[k])]

RECURSIVE ParseLegs(_, _)
ParseLegs(legs, premiums) ==
    IF legs = <<>> THEN <<>>
    ELSE LET leg    == Head(legs)
             parsed == parseLeg(leg, PremiumOf(premiums, leg.instrument_name))
         IN  (IF parsed # NoLeg THEN <<parsed>> ELSE <<>>)
             \o ParseLegs(Tail(legs), premiums)

\* maxGain: null (unlimited) or a number.
NullGain == [isNull |-> TRUE, value |-> 0]

Gain(x) == [isNull |-> FALSE, value |-> x]

\* effectiveMaxGain || 0
GainOrZero(g) == IF g.isNull THEN 0 ELSE g.value

SomeLeg(legs, side, optionType) ==
    \E i \in 1..Len(legs) : legs[i].side = side /\ legs[i].optionType = optionType

\* Lines 810-816: the sampled price range.
PriceRange(parsedLegs, currentPrice) ==
    LET strikes   == {parsedLegs[i].strike : i \in 1..Len(parsedLegs)}
        minStrike == Min(strikes)
        maxStrike == Max(strikes)
        priceRange == IF maxStrike - minStrike # 0 THEN maxStrike - minStrike
                      ELSE currentPrice \div 5
    IN  [minPrice |-> Max2(0, minStrike - priceRange \div 2),
         maxPrice |-> maxStrike + priceRange \div 2]

\* calculatePayoff never returns when it has a leg to analyse and the scan of
\* findBreakevens hangs.
PayoffHangs(tradeSpec, premiums, currentPrice) ==
    LET parsedLegs == ParseLegs(tradeSpec.legs, premiums)
    IN  /\ parsedLegs # <<>>
        /\ LET r == PriceRange(parsedLegs, currentPrice)
           IN  ScanHangs(r.minPrice, r.maxPrice)

\* Lines 785-864; tradeSpec.max_loss_usd is in dollars, the rest in units.
calculatePayoff(tradeSpec, premiums, currentPrice) ==
    LET parsedLegs == ParseLegs(tradeSpec.legs, premiums)
    IN  IF parsedLegs = <<>>
        THEN [points |-> <<>>, maxLoss |-> Usd(tradeSpec.max_loss_usd),
              maxGain |-> NullGain, breakevens |-> <<>>, returned |-> TRUE]
        ELSE
        LET r        == PriceRange(parsedLegs, currentPrice)
            minPrice == r.minPrice
            maxPrice == r.maxPrice
            priceAt  == [i \in 0..NUM_POINTS |->
                            minPrice + ((maxPrice - minPrice) \div NUM_POINTS) * i]
            pnlAt    == [i \in 0..NUM_POINTS |-> calculateTotalPnl(parsedLegs, priceAt[i])]
            minPnl   == Min({pnlAt[i] : i \in 0..NUM_POINTS})
            maxPnl   == Max({pnlAt[i] : i \in 0..NUM_POINTS})
            hasShortCall == SomeLeg(parsedLegs, "sell", "C")
            hasLongPut   == SomeLeg(parsedLegs, "buy", "P")
            pnlAtZero    == calculateTotalPnl(parsedLegs, 0)
            gain1 == IF ~hasShortCall /\ SomeLeg(parsedLegs, "buy", "C")
                     THEN NullGain ELSE Gain(maxPnl)
            gain2 == IF hasLongPut /\ ~SomeLeg(parsedLegs, "sell", "P")
                     THEN Gain(Max2(GainOrZero(gain1), pnlAtZero))
                     ELSE gain1
        IN  [points |-> [k \in 1..(NUM_POINTS + 1) |->
                            [price |-> RoundToCents(priceAt[k - 1]),
                             pnl |-> RoundToCents(pnlAt[k - 1])]],
             maxLoss |-> RoundToCents(Abs(minPnl)),
             maxGain |-> IF gain2.isNull THEN NullGain
                         ELSE Gain(RoundToCents(gain2.value)),
             breakevens |-> findBreakevens(parsedLegs, minPrice, maxPrice),
             returned |-> TRUE]

\* The call is stuck in a loop and will not return.
Hung == [returned |-> FALSE, hung |-> TRUE]

\* The legs of the trades analysed: calls and puts bought and sold, one or two
\* contracts, and a leg whose name is not in the instrument format.
PayoffLegs ==
    {Leg("ETH-20250124-3500-C", "buy", 1), Leg("ETH-20250124-3500-C", "buy", 2),
     Leg("ETH-20250124-4000-C", "sell", 1), Leg("ETH-20250124-4000-C", "sell", 2),
     Leg("ETH-20250124-3500-P", "buy", 1), Leg("ETH-20250124-3000-P", "sell", 1),
     Leg("ETH-20250124-3500-C", "sell", 1), Leg("INVALID-FORMAT", "buy", 1)}

PayoffLegSeqs == UNION {[1..n -> PayoffLegs] : n \in 1..MaxLegs}

PayoffTradeSpecs == {[ValidSpec EXCEPT !.legs = ls] : ls \in PayoffLegSeqs}

\* premiums: instrument_name -> premium per contract; no entry at all, cheap
\* options, expensive options, and a map with a 0 and a missing entry.
PremiumMaps ==
    {<<>>,
     [x \in DOMAIN InstrumentFormat |->
        CASE x = "ETH-20250124-3500-C" -> Usd(150)
          [] x = "ETH-20250124-4000-C" -> Usd(50)
          [] x = "ETH-20250124-3500-P" -> Usd(100)
          [] x = "ETH-20250124-3000-P" -> Usd(40)],
     [x \in DOMAIN InstrumentFormat |->
        CASE x = "ETH-20250124-3500-C" -> Usd(400)
          [] x = "ETH-20250124-4000-C" -> Usd(300)
          [] x = "ETH-20250124-3500-P" -> Usd(400)
          [] x = "ETH-20250124-3000-P" -> Usd(10)],
     [x \in {"ETH-20250124-3500-C", "ETH-20250124-4000-C"} |->
        IF x = "ETH-20250124-3500-C" THEN Usd(150) ELSE 0]}

\* currentPrice in dollars: 0, and prices whose fifth divides evenly.
ReferencePrices == {0, 1600, 3400}

PayoffCalls ==
    [fn : {"calculatePayoff"}, tradeSpec : PayoffTradeSpecs,
     premiums : PremiumMaps, currentPrice : {Usd(c) : c \in ReferencePrices}]

CallCalculatePayoff ==
    /\ fnCall.fn = "calculatePayoff"
    /\ fnReturn = NotReturned
    /\ fnReturn' = IF PayoffHangs(fnCall.tradeSpec, fnCall.premiums, fnCall.currentPrice)
                   THEN Hung
                   ELSE calculatePayoff(fnCall.tradeSpec, fnCall.premiums,
                                        fnCall.currentPrice)
    /\ UNCHANGED <<fnCall, tpc, promises, completed, parseVars, extractVars, execVars>>

\* Lines 866-883: the result in units.
RECURSIVE TotalCost(_, _)
TotalCost(legs, premiums) ==
    IF legs = <<>> THEN 0
    ELSE LET leg     == Head(legs)
             premium == PremiumOf(premiums, leg.instrument_name)
         IN  (IF leg.side = "buy" THEN premium * leg.amount
              ELSE -(premium * leg.amount))
             + TotalCost(Tail(legs), premiums)

\* calculateEntryCost with every leg counted as a debit.
calculateEntryCostAllDebit(tradeSpec, premiums) ==
    RoundToCents(TotalCost([i \in 1..Len(tradeSpec.legs) |->
                               [tradeSpec.legs[i] EXCEPT !.side = "buy"]], premiums))

calculateEntryCost(tradeSpec, premiums) ==
    RoundToCents(TotalCost(tradeSpec.legs, premiums))

EntryCostCalls ==
    [fn : {"calculateEntryCost"}, tradeSpec : PayoffTradeSpecs, premiums : PremiumMaps]

CallCalculateEntryCost ==
    /\ fnCall.fn = "calculateEntryCost"
    /\ fnReturn = NotReturned
    /\ fnReturn' = [returned |-> TRUE,
                    cost |-> calculateEntryCost(fnCall.tradeSpec, fnCall.premiums)]
    /\ UNCHANGED <<fnCall, tpc, promises, completed, parseVars, extractVars, execVars>>

\* ---- end of the library functions ----

InitLib ==
    /\ fnCall \in RunSafetyChecksCalls \cup ValidateCalls \cup PayoffCalls
                  \cup EntryCostCalls
    /\ fnReturn = NotReturned
    /\ tpc = "START"
    /\ promises = <<>>
    /\ completed = <<>>

LibInit == IdleParse /\ IdleExtract /\ IdleExec /\ InitLib

NextLib ==
    \/ CallRunSafetyChecks
    \/ CallValidateTradeBeforeExecution
    \/ CallCalculatePayoff
    \/ CallCalculateEntryCost

\* One call of one library function.
SpecLib == LibInit /\ [][NextLib]_vars

(***************************************************************************)
(* runSafetyChecks and validateTradeBeforeExecution                        *)
(***************************************************************************)
SafetyChecked == fnCall.fn = "runSafetyChecks" /\ fnReturn # NotReturned

CostOverLimit ==
    fnCall.estimatedCost > fnCall.env.maxTradeCostUsd * CentsPerUsd

ContractsOverLimit ==
    \E i \in 1..Len(fnCall.tradeSpec.legs) :
        fnCall.tradeSpec.legs[i].amount > fnCall.env.maxContractsPerLeg

SpreadOverLimit ==
    /\ fnCall.spreadPercent # NoSpread
    /\ fnCall.spreadPercent.num > fnCall.env.maxSpreadPercent * fnCall.spreadPercent.den

InSeq(x, seq) == \E i \in 1..Len(seq) : seq[i] = x

C13_CostCheck ==
    SafetyChecked =>
        /\ fnReturn.passes_max_cost <=> ~CostOverLimit
        /\ fnCall.estimatedCost = fnCall.env.maxTradeCostUsd * CentsPerUsd
               => fnReturn.passes_max_cost
        /\ fnCall.estimatedCost = fnCall.env.maxTradeCostUsd * CentsPerUsd + 1
               => ~fnReturn.passes_max_cost
        /\ InSeq(E_COST, fnReturn.errors) <=> ~fnReturn.passes_max_cost
        /\ Cardinality({i \in 1..Len(fnReturn.errors) : fnReturn.errors[i] = E_COST}) <= 1

\* A cost one cent above the limit failed the check.
C13_Witness ==
    /\ SafetyChecked
    /\ fnCall.estimatedCost = fnCall.env.maxTradeCostUsd * CentsPerUsd + 1
    /\ ~fnReturn.passes_max_cost
    /\ InSeq(E_COST, fnReturn.errors)

\* C14: passes_max_contracts is TRUE exactly when the largest leg amount is
\* <= maxContractsPerLeg (at the limit it passes, one oversize leg among
\* several fails it), and errors holds the contracts error exactly when the
\* check fails.
C14_ContractsCheck ==
    SafetyChecked =>
        /\ fnReturn.passes_max_contracts <=> ~ContractsOverLimit
        /\ InSeq(E_CONTRACTS, fnReturn.errors) <=> ~fnReturn.passes_max_contracts
        /\ Cardinality({i \in 1..Len(fnReturn.errors) :
                           fnReturn.errors[i] = E_CONTRACTS}) <= 1

\* The second of two legs alone is over the limit and the check failed.
C14_Witness ==
    /\ SafetyChecked
    /\ Len(fnCall.tradeSpec.legs) = 2
    /\ fnCall.tradeSpec.legs[1].amount <= fnCall.env.maxContractsPerLeg
    /\ fnCall.tradeSpec.legs[2].amount > fnCall.env.maxContractsPerLeg
    /\ ~fnReturn.passes_max_contracts
    /\ InSeq(E_CONTRACTS, fnReturn.errors)

\* C15: the spread check only produces warnings: a null spread passes with a
\* no-liquidity warning, a spread over the limit fails with a spread warning,
\* and errors is non-empty exactly when the cost or the contracts check
\* failed.
C15_SpreadOnlyWarns ==
    SafetyChecked =>
        /\ fnCall.spreadPercent = NoSpread
               => (fnReturn.passes_spread_check /\ InSeq(W_NO_LIQUIDITY, fnReturn.warnings))
        /\ SpreadOverLimit
               => (~fnReturn.passes_spread_check /\ InSeq(W_SPREAD, fnReturn.warnings))
        /\ \A i \in 1..Len(fnReturn.errors) : fnReturn.errors[i] \in {E_COST, E_CONTRACTS}
        /\ fnReturn.errors # <<>> <=> (CostOverLimit \/ ContractsOverLimit)

\* A spread over the limit, cost and contracts within theirs: no error.
C15_Witness ==
    /\ SafetyChecked
    /\ SpreadOverLimit
    /\ ~fnReturn.passes_spread_check
    /\ InSeq(W_SPREAD, fnReturn.warnings)
    /\ fnReturn.errors = <<>>

Validated == fnCall.fn = "validateTradeBeforeExecution" /\ fnReturn # NotReturned

\* C16: with safe mode disabled every preview may execute; with safe mode
\* enabled the preview is denied with the cost reason if passes_max_cost is
\* FALSE, else with the contracts reason if passes_max_contracts is FALSE,
\* else with the joined errors if there are any, and allowed otherwise.
C16_ValidateBeforeExecution ==
    Validated =>
        LET sc   == fnCall.preview.safety_checks
            safe == fnCall.env.safeModeEnabled
        IN  /\ ~safe => fnReturn.canExecute
            /\ (safe /\ ~sc.passes_max_cost)
                   => (/\ ~fnReturn.canExecute
                       /\ fnReturn.reason = <<R_COST, fnCall.env.maxTradeCostUsd>>)
            /\ (safe /\ sc.passes_max_cost /\ ~sc.passes_max_contracts)
                   => (/\ ~fnReturn.canExecute
                       /\ fnReturn.reason = <<R_CONTRACTS, fnCall.env.maxContractsPerLeg>>)
            /\ (safe /\ sc.passes_max_cost /\ sc.passes_max_contracts /\ sc.errors # <<>>)
                   => (/\ ~fnReturn.canExecute
                       /\ Len(fnReturn.reason) = 2 * Len(sc.errors) - 1
                       /\ \A i \in 1..Len(sc.errors) : fnReturn.reason[2 * i - 1] = sc.errors[i]
                       /\ \A i \in 1..(Len(sc.errors) - 1) : fnReturn.reason[2 * i] = "; ")
            /\ (safe /\ sc.passes_max_cost /\ sc.passes_max_contracts /\ sc.errors = <<>>)
                   => fnReturn.canExecute

\* Safe mode disabled and a preview that failed the cost check: allowed.
C16_Witness ==
    /\ Validated
    /\ ~fnCall.env.safeModeEnabled
    /\ ~fnCall.preview.safety_checks.passes_max_cost
    /\ Len(fnCall.preview.safety_checks.errors) = 2
    /\ fnReturn.canExecute

(***************************************************************************)
(* calculatePayoff and calculateEntryCost                                  *)
(***************************************************************************)
PayoffCalled == fnCall.fn = "calculatePayoff" /\ fnReturn # NotReturned

PayoffReturned == PayoffCalled /\ fnReturn.returned

\* The legs of the call as calculatePayoff analyses them.
CalledLegs == ParseLegs(fnCall.tradeSpec.legs, fnCall.premiums)

SingleBought(optionType) ==
    /\ Len(fnCall.tradeSpec.legs) = 1
    /\ Len(CalledLegs) = 1
    /\ CalledLegs[1].side = "buy"
    /\ CalledLegs[1].optionType = optionType
    /\ CalledLegs[1].premium > 0

\* C17: for a single bought call with a premium > 0, at every reference
\* price, calculatePayoff returns exactly one breakeven, within 0.01 of
\* strike + premium; for a single bought put, within 0.01 of strike - premium.
C17_SingleLegBreakeven ==
    /\ (PayoffCalled /\ SingleBought("C")) =>
           /\ fnReturn.returned
           /\ Len(fnReturn.breakevens) = 1
           /\ Abs(fnReturn.breakevens[1] - (CalledLegs[1].strike + CalledLegs[1].premium))
                  <= Cent
    /\ (PayoffCalled /\ SingleBought("P")) =>
           /\ fnReturn.returned
           /\ Len(fnReturn.breakevens) = 1
           /\ Abs(fnReturn.breakevens[1] - (CalledLegs[1].strike - CalledLegs[1].premium))
                  <= Cent

\* Legs i and j of the call make a debit call spread: i a bought call, j a
\* sold call on a higher strike, equal amounts, net debit positive and below
\* the strike difference.
IsDebitCallSpread(i, j) ==
    LET b == CalledLegs[i]
        w == CalledLegs[j]
    IN  /\ b.side = "buy" /\ b.optionType = "C"
        /\ w.side = "sell" /\ w.optionType = "C"
        /\ b.strike < w.strike
        /\ b.amount = w.amount
        /\ b.premium - w.premium > 0
        /\ b.premium - w.premium < w.strike - b.strike

\* C18: for a debit call spread calculatePayoff returns maxLoss = net debit
\* and maxGain = strike difference - net debit, each times the common amount.
C18_DebitSpreadLossAndGain ==
    (PayoffCalled /\ Len(fnCall.tradeSpec.legs) = 2 /\ Len(CalledLegs) = 2) =>
        \A i, j \in 1..2 :
            IsDebitCallSpread(i, j) =>
                LET b == CalledLegs[i]
                    w == CalledLegs[j]
                    netDebit == b.premium - w.premium
                IN  /\ fnReturn.returned
                    /\ fnReturn.maxLoss = netDebit * b.amount
                    /\ fnReturn.maxGain = Gain((w.strike - b.strike - netDebit) * b.amount)

\* A debit call spread of two contracts a side, sold leg listed first, analysed.
C18_Witness ==
    /\ PayoffReturned
    /\ Len(fnCall.tradeSpec.legs) = 2
    /\ Len(CalledLegs) = 2
    /\ IsDebitCallSpread(2, 1)
    /\ CalledLegs[1].amount = 2
    /\ fnReturn.maxLoss = 2 * (CalledLegs[2].premium - CalledLegs[1].premium)

\* C19: when the parsed legs hold a bought call and no sold call,
\* calculatePayoff returns maxGain = null, whatever the other legs are.
C19_UncappedCallGainIsNull ==
    (/\ PayoffReturned
     /\ SomeLeg(CalledLegs, "buy", "C")
     /\ ~SomeLeg(CalledLegs, "sell", "C")) => fnReturn.maxGain.isNull

EntryCostReturned == fnCall.fn = "calculateEntryCost" /\ fnReturn # NotReturned

Reordered(legs, perm) == [i \in 1..Len(legs) |-> legs[perm[i]]]

WithoutLeg(legs, i) == SubSeq(legs, 1, i - 1) \o SubSeq(legs, i + 1, Len(legs))

EntryCostOf(legs) ==
    calculateEntryCost([fnCall.tradeSpec EXCEPT !.legs = legs], fnCall.premiums)

MaxNames == 3           \* entries of params.instrument_names

InstrumentNames == {"ETH-A", "ETH-B"}

\* What one executeGetTicker call does: it resolves with a ticker (two
\* snapshots, so that two lookups of one name can differ) or it rejects.
LookupOutcomes == {"rejects", "ticker1", "ticker2"}

Null == [isNull |-> TRUE]

Snapshot(outcome) == [isNull |-> FALSE, snapshot |-> outcome]

Pending == [state |-> "pending"]

\* Lines 231-238: the async callback of one name, `return { name, ticker }`
\* after the await, `return { name, ticker: null }` in the catch.
LookupSettled(name, outcome) ==
    [state |-> "fulfilled",
     name |-> name,
     ticker |-> IF outcome = "rejects" THEN Null ELSE Snapshot(outcome)]

RECURSIVE AssignAll(_, _)
\* Lines 241-243: `for (const { name, ticker } of settled) results[name] =
\* ticker`, a later entry of one name replacing an earlier one.
AssignAll(results, settled) ==
    IF settled = <<>> THEN results
    ELSE LET first == Head(settled)
             names == DOMAIN results \cup {first.name}
         IN  AssignAll([n \in names |-> IF n = first.name THEN first.ticker
                                        ELSE results[n]],
                       Tail(settled))

EmptyRecord == [n \in {} |-> Null]

\* Line 240: Promise.all resolves with the values in the order of the
\* promises, whatever the order in which they were fulfilled.
SettledInCompletionOrder(ps, order) == [k \in 1..Len(order) |-> ps[order[k]]]

SettledOf(ps, order) == ps

GetMultipleTickersCalls ==
    {[fn |-> "executeGetMultipleTickers", instrument_names |-> names,
      outcomes |-> outcomes] :
        <<names, outcomes>> \in
            UNION {[1..n -> InstrumentNames] \X [1..n -> LookupOutcomes] :
                   n \in 0..MaxNames}}

\* Line 231: map starts one lookup per requested name; none has completed.
IssueLookups ==
    /\ fnCall.fn = "executeGetMultipleTickers"
    /\ tpc = "START"
    /\ promises' = [i \in 1..Len(fnCall.instrument_names) |-> Pending]
    /\ tpc' = "AWAIT"
    /\ UNCHANGED <<fnCall, fnReturn, completed, parseVars, extractVars, execVars>>

\* One lookup completes, in any order with respect to the others.
SettleLookup ==
    /\ fnCall.fn = "executeGetMultipleTickers"
    /\ tpc = "AWAIT"
    /\ \E i \in 1..Len(promises) :
          /\ promises[i] = Pending
          /\ promises' = [promises EXCEPT
                 ![i] = LookupSettled(fnCall.instrument_names[i], fnCall.outcomes[i])]
          /\ completed' = Append(completed, i)
    /\ UNCHANGED <<fnCall, fnReturn, tpc, parseVars, extractVars, execVars>>

\* Lines 240-245: once every promise is fulfilled the results are collected
\* and returned.
CollectTickers ==
    /\ fnCall.fn = "executeGetMultipleTickers"
    /\ tpc = "AWAIT"
    /\ \A i \in 1..Len(promises) : promises[i] # Pending
    /\ fnReturn' = [returned |-> TRUE, threw |-> FALSE,
                    results |-> AssignAll(EmptyRecord, SettledOf(promises, completed))]
    /\ tpc' = "DONE"
    /\ UNCHANGED <<fnCall, promises, completed, parseVars, extractVars, execVars>>

\* ---- executeFindLiquidOptions, lines 264-358 ----

MaxInstruments == 2     \* instruments the exchange lists

DefaultStrikeRange == 15

DefaultMaxSpread == 10

NullSpreadRank == 100

NoParam == -1

\* `params.x || d`: the default replaces a missing value and 0 alike.
OrDefault(x, d) == IF x = NoParam \/ x = 0 THEN d ELSE x

\* The price strings of a ticker; "" stands for a missing or empty field.
PriceStrings == {"", "0", "0.0", "94", "98", "102", "106"}

\* parseFloat on the price strings above.
parseFloat(s) ==
    CASE s = "0" -> 0
      [] s = "0.0" -> 0
      [] s = "94" -> 94
      [] s = "98" -> 98
      [] s = "102" -> 102
      [] s = "106" -> 106

\* Lines 316-321: `s && s !== "0" ? parseFloat(s) : null`.
Quote(s) == IF s # "" /\ s # "0" THEN parseFloat(s) ELSE NoPrice

\* Lines 325-329, the spread in percent as an exact fraction:
\* (ask - bid) / ((bid + ask) / 2) * 100.
SpreadPercent(bid, ask) ==
    IF bid # NoPrice /\ ask # NoPrice /\ bid > 0
    THEN IF bid + ask > 0 THEN Fraction((ask - bid) * 200, bid + ask) ELSE NoSpread
    ELSE NoSpread

\* Lines 332-333.
IsLiquid(bid, ask, spreadPercent, maxSpreadPercent) ==
    /\ bid # NoPrice /\ ask # NoPrice
    /\ (spreadPercent = NoSpread \/ FracLeqInt(spreadPercent, maxSpreadPercent))

\* Lines 352-353: `spread_percent ?? 100`.
SpreadRank(entry) ==
    IF entry.pricing.spread_percent = NoSpread THEN Fraction(NullSpreadRank, 1)
    ELSE entry.pricing.spread_percent

\* spreadA - spreadB > 0, on fractions with positive denominators.
RanksAfter(a, b) ==
    SpreadRank(a).num * SpreadRank(b).den > SpreadRank(b).num * SpreadRank(a).den

RECURSIVE InsertByDescendingSpread(_, _)
\* Insertion under the comparator spreadB - spreadA.
InsertByDescendingSpread(sorted, entry) ==
    IF sorted = <<>> THEN <<entry>>
    ELSE IF RanksAfter(entry, Head(sorted)) THEN <<entry>> \o sorted
         ELSE <<Head(sorted)>> \o InsertByDescendingSpread(Tail(sorted), entry)

RECURSIVE InsertBySpread(_, _)
\* Lines 351-355: Array.prototype.sort is stable, so an entry goes behind
\* every entry the comparator does not put after it.
InsertBySpread(sorted, entry) ==
    IF sorted = <<>> THEN <<entry>>
    ELSE IF RanksAfter(Head(sorted), entry) THEN <<entry>> \o sorted
         ELSE <<Head(sorted)>> \o InsertBySpread(Tail(sorted), entry)

RECURSIVE SortBySpread(_)
SortBySpread(results) ==
    IF results = <<>> THEN <<>>
    ELSE InsertBySpread(SortBySpread(SubSeq(results, 1, Len(results) - 1)),
                        results[Len(results)])

\* Lines 204-214, executeGetInstruments' filter; expiry is counted in days
\* from now.
ListedBefore(i, expiry_days_max) ==
    /\ i.is_active
    /\ (expiry_days_max # 0 => (i.expiry <= expiry_days_max /\ i.expiry > 0))

\* Lines 289-303: option type, expiry window and strike range around the
\* index price; strike < index * (1 - range / 100) is compared in hundredths.
InRange(i, q) ==
    /\ i.option_type = q.option_type
    /\ ~(i.expiry < q.min_days_to_expiry \/ i.expiry > q.max_days_to_expiry)
    /\ ~(\/ i.strike * 100 < q.index_price * (100 - q.strikeRange)
         \/ i.strike * 100 > q.index_price * (100 + q.strikeRange))

\* Lines 272-303: the instruments whose tickers are requested.
FilteredInstruments(params, index_price, instruments) ==
    LET q == [option_type |-> params.option_type,
              min_days_to_expiry |-> params.min_days_to_expiry,
              max_days_to_expiry |-> params.max_days_to_expiry,
              index_price |-> index_price,
              strikeRange |-> OrDefault(params.strike_range_percent, DefaultStrikeRange)]
        listed == SelectSeq(instruments,
                            LAMBDA i : ListedBefore(i, params.max_days_to_expiry))
    IN  SelectSeq(listed, LAMBDA i : InRange(i, q))

\* Lines 312-348: one instrument with its pricing, or nothing when it has
\* no ticker or is not liquid.
PricedIfLiquid(instrument, ticker, maxSpreadPercent) ==
    IF ticker = Null THEN <<>>
    ELSE LET bid == Quote(ticker.best_bid_price)
             ask == Quote(ticker.best_ask_price)
             spreadPercent == SpreadPercent(bid, ask)
         IN  IF ~IsLiquid(bid, ask, spreadPercent, maxSpreadPercent) THEN <<>>
             ELSE <<[instrument_name |-> instrument.instrument_name,
                     pricing |-> [bid |-> bid, ask |-> ask,
                                  spread_percent |-> spreadPercent]]>>

RECURSIVE LiquidResults(_, _, _)
LiquidResults(filtered, tickers, maxSpreadPercent) ==
    IF filtered = <<>> THEN <<>>
    ELSE PricedIfLiquid(Head(filtered), tickers[Head(filtered).instrument_name], maxSpreadPercent)
         \o LiquidResults(Tail(filtered), tickers, maxSpreadPercent)

\* Lines 264-358, after the index price and the instruments were fetched;
\* tickers is what executeGetMultipleTickers returned for the filtered names.
executeFindLiquidOptions(params, index_price, instruments, tickers) ==
    LET maxSpreadPercent == OrDefault(params.max_spread_percent, DefaultMaxSpread)
        filtered == FilteredInstruments(params, index_price, instruments)
    IN  SortBySpread(LiquidResults(filtered, tickers, maxSpreadPercent))

\* The instruments the exchange can list: a call near the index, the put
\* of the same strike, a call far above the index, a call expiring late.
InstrumentIds == <<"ETH-1", "ETH-2", "ETH-3", "ETH-4">>

InstrumentKinds ==
    {[option_type |-> "C", strike |-> 3000, expiry |-> 14, is_active |-> TRUE],
     [option_type |-> "P", strike |-> 3000, expiry |-> 14, is_active |-> TRUE],
     [option_type |-> "C", strike |-> 4000, expiry |-> 14, is_active |-> TRUE],
     [option_type |-> "C", strike |-> 3000, expiry |-> 60, is_active |-> TRUE]}

Listed(kinds) ==
    [i \in 1..Len(kinds) |->
        [instrument_name |-> InstrumentIds[i],
         option_type |-> kinds[i].option_type,
         strike |-> kinds[i].strike,
         expiry |-> kinds[i].expiry,
         is_active |-> kinds[i].is_active]]

InstrumentLists ==
    {Listed(kinds) : kinds \in UNION {[1..n -> InstrumentKinds] : n \in 0..MaxInstruments}}

\* Tickers: two-sided quotes of 4% and 12% spread, a bid of "0" and of
\* "0.0", a missing ask; Null is a lookup that failed.
TickerChoices ==
    {Null} \cup
    {[isNull |-> FALSE, best_bid_price |-> b, best_ask_price |-> a] :
        <<b, a>> \in {<<"98", "102">>, <<"94", "106">>, <<"0", "102">>,
                      <<"0.0", "102">>, <<"98", "">>}}

FindParams ==
    [option_type : {"C"},
     min_days_to_expiry : {7},
     max_days_to_expiry : {30},
     strike_range_percent : {NoParam, 50},
     max_spread_percent : {NoParam, 0, 10, 150}]

IndexPrice == 3000

NamesOf(instruments) == {instruments[i].instrument_name : i \in 1..Len(instruments)}

FindLiquidOptionsCalls ==
    {[fn |-> "executeFindLiquidOptions", params |-> p, index_price |-> IndexPrice,
      instruments |-> l, tickers |-> t] :
        <<p, l, t>> \in
            UNION {{<<p, l, t>> :
                      t \in [NamesOf(FilteredInstruments(p, IndexPrice, l)) -> TickerChoices]} :
                   <<p, l>> \in FindParams \X InstrumentLists}}

\* The call whose index-price or instrument lookup fails (lines 276-282):
\* the rejection is not caught.
FindLiquidOptionsFailingCall ==
    [fn |-> "executeFindLiquidOptions",
     params |-> [option_type |-> "C", min_days_to_expiry |-> 7,
                 max_days_to_expiry |-> 30, strike_range_percent |-> NoParam,
                 max_spread_percent |-> NoParam],
     index_price |-> NoPrice, instruments |-> <<>>, tickers |-> EmptyRecord]

CallFindLiquidOptions ==
    /\ fnCall.fn = "executeFindLiquidOptions"
    /\ fnReturn = NotReturned
    /\ fnReturn' =
           IF fnCall.index_price = NoPrice
           THEN [returned |-> TRUE, threw |-> TRUE, results |-> <<>>]
           ELSE [returned |-> TRUE, threw |-> FALSE,
                 results |-> executeFindLiquidOptions(fnCall.params, fnCall.index_price,
                                                      fnCall.instruments, fnCall.tickers)]
    /\ UNCHANGED <<fnCall, tpc, promises, completed, parseVars, extractVars, execVars>>

InitTools ==
    /\ fnCall \in GetMultipleTickersCalls \cup FindLiquidOptionsCalls
                  \cup {FindLiquidOptionsFailingCall}
    /\ fnReturn = NotReturned
    /\ tpc = "START"
    /\ promises = <<>>
    /\ completed = <<>>

ToolsInit == IdleParse /\ IdleExtract /\ IdleExec /\ InitTools

NextTools ==
    \/ IssueLookups
    \/ SettleLookup
    \/ CollectTickers
    \/ CallFindLiquidOptions

\* One call of one market-data tool.
SpecTools == ToolsInit /\ [][NextTools]_vars

\* ------------------------------------------------------------------------
\* Properties of the market-data tools.
\* ------------------------------------------------------------------------

FindLiquidReturned ==
    /\ fnCall.fn = "executeFindLiquidOptions"
    /\ fnReturn # NotReturned
    /\ ~fnReturn.threw

\* The maximum the caller asked for: 10 only when none was supplied.
CallerMaxSpread ==
    IF fnCall.params.max_spread_percent = NoParam THEN DefaultMaxSpread
    ELSE fnCall.params.max_spread_percent

\* C21: every instrument executeFindLiquidOptions returns has a bid and an
\* ask above 0 and a spread (ask - bid) / mid * 100 that is at most the
\* max_spread_percent the caller supplied (10 when the caller supplied none).
C21_OnlyLiquidWithinCallerMaximum ==
    FindLiquidReturned =>
        \A k \in 1..Len(fnReturn.results) :
            LET pricing == fnReturn.results[k].pricing
            IN  /\ pricing.bid # NoPrice /\ pricing.bid > 0
                /\ pricing.ask # NoPrice /\ pricing.ask > 0
                /\ pricing.spread_percent =
                       Fraction((pricing.ask - pricing.bid) * 200, pricing.bid + pricing.ask)
                /\ FracLeqInt(pricing.spread_percent, CallerMaxSpread)

ReturnedNames == {fnReturn.results[k].instrument_name : k \in 1..Len(fnReturn.results)}

\* The filtered instruments whose ticker quotes the given bid and ask.
Quoted(bid, ask) ==
    {n \in DOMAIN fnCall.tickers :
        /\ fnCall.tickers[n] # Null
        /\ fnCall.tickers[n].best_bid_price = bid
        /\ fnCall.tickers[n].best_ask_price = ask}

FracLeq(a, b) == a.num * b.den <= b.num * a.den

\* C22: of two returned candidates that have a spread, the one with the
\* smaller spread comes first; with max_spread_percent = 10 a candidate of
\* spread 4% is returned and a candidate of spread 12% is not.
C22_SortedByAscendingSpread ==
    FindLiquidReturned =>
        /\ \A i, j \in 1..Len(fnReturn.results) :
              (/\ i < j
               /\ fnReturn.results[i].pricing.spread_percent # NoSpread
               /\ fnReturn.results[j].pricing.spread_percent # NoSpread)
              => FracLeq(fnReturn.results[i].pricing.spread_percent,
                         fnReturn.results[j].pricing.spread_percent)
        /\ fnCall.params.max_spread_percent = 10 =>
              /\ Quoted("98", "102") \subseteq ReturnedNames
              /\ Quoted("94", "106") \cap ReturnedNames = {}

\* The 12% candidate is listed before the 4% candidate and both are
\* returned, the 4% candidate first.
C22_Witness ==
    /\ FindLiquidReturned
    /\ Len(fnCall.instruments) = 2
    /\ fnCall.instruments[1].instrument_name \in Quoted("94", "106")
    /\ fnCall.instruments[2].instrument_name \in Quoted("98", "102")
    /\ Len(fnReturn.results) = 2
    /\ fnReturn.results[1].instrument_name = fnCall.instruments[2].instrument_name
    /\ fnReturn.results[1].pricing.spread_percent = Fraction(800, 200)
    /\ fnReturn.results[2].pricing.spread_percent = Fraction(2400, 200)

TickersReturned ==
    /\ fnCall.fn = "executeGetMultipleTickers"
    /\ fnReturn # NotReturned

\* The last lookup of a name in the order of the request.
LastLookupOf(name) ==
    CHOOSE i \in 1..Len(fnCall.instrument_names) :
        /\ fnCall.instrument_names[i] = name
        /\ \A j \in (i + 1)..Len(fnCall.instrument_names) :
              fnCall.instrument_names[j] # name

\* C23: executeGetMultipleTickers does not fail when a lookup fails; its
\* result has one entry for every requested name, the ticker when the
\* name's lookup succeeded and null when it failed (the last lookup of a
\* name requested more than once), whatever the order in which the lookups
\* completed.
C23_BatchToleratesFailedLookups ==
    TickersReturned =>
        /\ ~fnReturn.threw
        /\ DOMAIN fnReturn.results =
               {fnCall.instrument_names[i] : i \in 1..Len(fnCall.instrument_names)}
        /\ \A name \in DOMAIN fnReturn.results :
              LET outcome == fnCall.outcomes[LastLookupOf(name)]
              IN  fnReturn.results[name] =
                      IF outcome = "rejects" THEN Null ELSE Snapshot(outcome)

\* The lookups completed in the reverse of the order of the request, two of
\* them for one name with different answers, and one of them failed.
C23_Witness ==
    /\ TickersReturned
    /\ fnCall.instrument_names = <<"ETH-A", "ETH-B", "ETH-A">>
    /\ fnCall.outcomes = <<"ticker1", "rejects", "ticker2">>
    /\ completed = <<3, 2, 1>>
    /\ fnReturn.results["ETH-A"] = Snapshot("ticker2")
    /\ fnReturn.results["ETH-B"] = Null

\* ------------------------------------------------------------------------
\* Further properties of calculatePayoff.
\* ------------------------------------------------------------------------

MatchingLegs(legs) ==
    SelectSeq(legs, LAMBDA leg : leg.instrument_name \in DOMAIN InstrumentFormat)

\* What a call of calculatePayoff on the given legs comes to: its result, or
\* no return at all.
PayoffOutcome(legs) ==
    LET tradeSpec == [fnCall.tradeSpec EXCEPT !.legs = legs]
    IN  IF PayoffHangs(tradeSpec, fnCall.premiums, fnCall.currentPrice) THEN Hung
        ELSE calculatePayoff(tradeSpec, fnCall.premiums, fnCall.currentPrice)

\* C24: calculatePayoff drops every leg whose instrument_name does not match
\* UNDERLYING-YYYYMMDD-STRIKE-(C|P) and analyses the other legs only: the
\* call comes to what the call on the matching legs alone comes to; when
\* no leg matches it returns points = [], breakevens = [], maxGain = null
\* and maxLoss = tradeSpec.max_loss_usd.
C24_UnparseableLegsDropped ==
    PayoffCalled =>
        LET matching == MatchingLegs(fnCall.tradeSpec.legs)
        IN  /\ matching # fnCall.tradeSpec.legs => fnReturn = PayoffOutcome(matching)
            /\ matching = <<>> =>
                  /\ fnReturn.returned
                  /\ fnReturn.points = <<>>
                  /\ fnReturn.breakevens = <<>>
                  /\ fnReturn.maxGain.isNull
                  /\ fnReturn.maxLoss = Usd(fnCall.tradeSpec.max_loss_usd)

\* A leg that does not match placed before a bought call: the call alone is
\* analysed.
C24_Witness ==
    /\ PayoffReturned
    /\ Len(fnCall.tradeSpec.legs) = 2
    /\ fnCall.tradeSpec.legs[1].instrument_name = "INVALID-FORMAT"
    /\ fnCall.tradeSpec.legs[2] = Leg("ETH-20250124-3500-C", "buy", 1)
    /\ Len(fnReturn.points) = NUM_POINTS + 1
    /\ fnReturn.maxGain.isNull
    /\ fnReturn.maxLoss = PremiumOf(fnCall.premiums, "ETH-20250124-3500-C")
    /\ fnReturn.maxLoss > 0

\* C26: calculatePayoff returns, with exactly 101 payoff points, for every
\* trade with at least one parseable leg, every premium map and every
\* reference price >= 0, a reference price of 0 with one strike included.
C26_PayoffTerminatesWith101Points ==
    (PayoffCalled /\ CalledLegs # <<>>) =>
        /\ fnReturn.returned
        /\ Len(fnReturn.points) = NUM_POINTS + 1

\* ------------------------------------------------------------------------
\* Further properties of the execute route.
\* ------------------------------------------------------------------------

Answered(status) == xpc = "RESPONDED" /\ response.status = status

IsCallFor(call, leg) ==
    /\ call.instrument_name = leg.instrument_name
    /\ call.side = leg.side
    /\ call.amount = leg.amount

\* C25: after the safety check let the trade through, submitOrder is called
\* for the legs in leg order, one entry of orders is recorded per call, a
\* rejected call as status "failed", and the calls go on after a rejected
\* one; the answer of status 200 has one entry per leg in leg order, and
\* success only if no call was rejected.
C25_EveryLegSubmittedInOrder ==
    LET legs == request.tradeSpec.legs
    IN  /\ Len(submitted) <= Len(legs)
        /\ Len(orders) = Len(submitted)
        /\ \A i \in 1..Len(submitted) :
              /\ IsCallFor(submitted[i], legs[i])
              /\ orders[i].instrument_name = legs[i].instrument_name
              /\ submitted[i].rejected => orders[i].status = "failed"
        /\ Answered(200) =>
              /\ Len(orders) = Len(legs)
              /\ response.success => \A i \in 1..Len(legs) : ~submitted[i].rejected

\* Two legs, the first order rejected and the second accepted: both are
\* recorded and the answer is 200 without success.
C25_Witness ==
    /\ Answered(200)
    /\ Len(request.tradeSpec.legs) = 2
    /\ request.tradeSpec.legs[1] # request.tradeSpec.legs[2]
    /\ submitted[1].rejected /\ ~submitted[2].rejected
    /\ orders[1].status = "failed" /\ orders[2].status = "open"
    /\ ~response.success

\* ------------------------------------------------------------------------
\* Further properties of parseIntent.
\* ------------------------------------------------------------------------

\* C27: between the turns of a parseIntent run and at its end, toolCallCount
\* equals the number of distinct tool-use ids processed so far, so that a
\* TradeSpec is returned only after at least two distinct tool invocations.
C27_CountEqualsDistinctIds ==
    pc \in {"REQUEST_MODEL", "DONE", "FAILED"} =>
        /\ toolCallCount = Cardinality(toolIdsProcessed)
        /\ pc = "DONE" => Cardinality(toolIdsProcessed) >= MIN_TOOL_CALLS

IdsOf(ids) == {ids[k] : k \in 1..Len(ids)}

\* The user message answers the assistant message: one tool_result for each
\* of its tool_use ids and none for another id.
AnswersToolUse(user, assistant) ==
    /\ user.role = "user"
    /\ user.kind = "tool_results"
    /\ {user.results[k].tool_use_id : k \in 1..Len(user.results)} = IdsOf(assistant.tool_use)
    /\ \A k, l \in 1..Len(user.results) :
          k # l => user.results[k].tool_use_id # user.results[l].tool_use_id

\* C28: in the conversation sent to the model every assistant message with
\* tool_use blocks is immediately followed by a user message holding exactly
\* one tool_result for each tool_use id of the assistant message and none
\* for any other id (while the tools of the last message are still being
\* executed, the answer is not there yet).
C28_ToolUseAnsweredByToolResults ==
    \A i \in 1..Len(messages) :
        (messages[i].role = "assistant" /\ messages[i].tool_use # <<>>) =>
            IF i = Len(messages) THEN pc = "EXECUTE_TOOLS"
            ELSE AnswersToolUse(messages[i + 1], messages[i])

\* ------------------------------------------------------------------------
\* The two verdicts of the safety gate.
\* ------------------------------------------------------------------------

\* validateTradeBeforeExecution on a preview that carries the result
\* runSafetyChecks has just returned, under the configuration of that call.
VerdictOnResult ==
    validateTradeBeforeExecution([safety_checks |-> fnReturn], fnCall.env)

\* C29: for every result r of runSafetyChecks and every configuration,
\* validateTradeBeforeExecution on a preview carrying r returns canExecute =
\* true exactly when r.all_passed is true.
C29_VerdictsAgree ==
    SafetyChecked => (VerdictOnResult.canExecute <=> fnReturn.all_passed)

\* ------------------------------------------------------------------------
\* The order of the steps of the execute route.
\* ------------------------------------------------------------------------

PriceFetchFailed ==
    Answered(400) /\ response.error = "Failed to fetch price for instrument"

\* C30: before the first submitOrder call the price of every leg has been
\* fetched and the safety check has been run; when the price lookup of a leg
\* fails the handler answers 400 and no order is submitted for any leg.
C30_PricesAndSafetyBeforeOrders ==
    /\ submitted # <<>> =>
          /\ tickerCalls = Len(request.tradeSpec.legs)
          /\ \A i \in 1..Len(request.tradeSpec.legs) :
                pricesMap[request.tradeSpec.legs[i].instrument_name] # NoPrices
          /\ safetyResult.computed
    /\ PriceFetchFailed => (submitted = <<>> /\ orders = <<>>)
    /\ (xpc = "RESPONDED" /\ tickerCalls > 0 /\ tickerCalls < Len(request.tradeSpec.legs))
          => PriceFetchFailed

\* The first leg's price was fetched, the second leg's lookup failed: the
\* answer is 400, without a safety check and without an order.
C30_Witness ==
    /\ PriceFetchFailed
    /\ Len(request.tradeSpec.legs) = 2
    /\ tickerCalls = 2
    /\ pricesMap[request.tradeSpec.legs[1].instrument_name] # NoPrices
    /\ ~safetyResult.computed
    /\ submitted = <<>>

====
